---------------------------- MODULE Spec2Model ----------------------------
(***************************************************************************)
(* The HTML tokeniser of ttlibv2/abc: the driver (Tokeniser), the state    *)
(* machine (TokeniserState), the character reader (CharacterReader) and    *)
(* the token model (Token, Tag, Comment, Character, EOF).                  *)
(*                                                                         *)
(* Modelling conventions                                                   *)
(*  - a JavaScript string is a sequence of characters; a character is a    *)
(*    one-element TLA+ string, NUL is "NUL", U+FFFD is "FFFD";             *)
(*  - Char (a String wrapper) is modelled by the character it wraps, and   *)
(*    the comparisons of the state machine are comparisons of characters;  *)
(*  - CharacterReader.EOF is the sentinel character "EOF", which is not an *)
(*    input character; TokeniserState.eof is that sentinel;                *)
(*  - a nullable string is a record [null, v];                             *)
(*  - the two objects are the records t (Tokeniser) and r                  *)
(*    (CharacterReader); a method is an operator from the world            *)
(*    [t, r, errors, log, exc] to the world after the call; once exc is    *)
(*    set (an uncaught exception) the remaining calls of the handler have  *)
(*    no effect, as in the code.                                           *)
(***************************************************************************)
EXTENDS Integers, Sequences, FiniteSets, TLC

(***************************************************************************)
(* Bounds of the model                                                     *)
(***************************************************************************)
MaxLen == 3

MaxReturned == 6

MaxErrors == 8

(***************************************************************************)
(* Characters                                                              *)
(***************************************************************************)
NUL == "NUL"

FFFD == "FFFD"

EOFChar == "EOF"

\* the grave accent U+0060
GRAVE == "GRAVE"

LowerLetters == <<"a","b","c","d","e","f","g","h","i","j","k","l","m",
                  "n","o","p","q","r","s","t","u","v","w","x","y","z">>

UpperLetters == <<"A","B","C","D","E","F","G","H","I","J","K","L","M",
                  "N","O","P","Q","R","S","T","U","V","W","X","Y","Z">>

Range(s) == { s[i] : i \in DOMAIN s }

LowerSet == Range(LowerLetters)

UpperSet == Range(UpperLetters)

LetterIndex(letters, c) == CHOOSE i \in DOMAIN letters : letters[i] = c

\* String.prototype.charCodeAt(0) of a character
charCode(c) ==
    IF c \in LowerSet THEN 96 + LetterIndex(LowerLetters, c)
    ELSE IF c \in UpperSet THEN 64 + LetterIndex(UpperLetters, c)
    ELSE CASE c = NUL -> 0
           [] c = "\t" -> 9
           [] c = "\n" -> 10
           [] c = "\f" -> 12
           [] c = "\r" -> 13
           [] c = " " -> 32
           [] c = "!" -> 33
           [] c = "\"" -> 34
           [] c = "#" -> 35
           [] c = "&" -> 38
           [] c = "'" -> 39
           [] c = "," -> 44
           [] c = "-" -> 45
           [] c = "/" -> 47
           [] c = "1" -> 49
           [] c = ";" -> 59
           [] c = "<" -> 60
           [] c = "=" -> 61
           [] c = ">" -> 62
           [] c = "?" -> 63
           [] c = "[" -> 91
           [] c = "]" -> 93
           [] c = GRAVE -> 96
           [] c = FFFD -> 65533
           [] OTHER -> 65535

toLowerCaseChar(c) ==
    IF c \in UpperSet THEN LowerLetters[LetterIndex(UpperLetters, c)] ELSE c

toUpperCaseChar(c) ==
    IF c \in LowerSet THEN UpperLetters[LetterIndex(LowerLetters, c)] ELSE c

toLowerCase(s) == [i \in DOMAIN s |-> toLowerCaseChar(s[i])]

toUpperCase(s) == [i \in DOMAIN s |-> toUpperCaseChar(s[i])]

Whitespace == {"\t", "\n", "\r", "\f", " "}

(***************************************************************************)
(* Nullable strings and JavaScript array and string primitives             *)
(***************************************************************************)
Null == [null |-> TRUE, v |-> << >>]

Some(s) == [null |-> FALSE, v |-> s]

Min(S) == CHOOSE x \in S : \A y \in S : x <= y

Max2(a, b) == IF a >= b THEN a ELSE b

\* Array.prototype.slice(start, end) with 0-based start >= 0
slice(a, start, end) ==
    LET hi == IF end > Len(a) THEN Len(a) ELSE end
    IN  IF hi <= start THEN << >> ELSE SubSeq(a, start + 1, hi)

RECURSIVE joinComma(_)
\* Array.prototype.join() without argument: the separator is ","
joinComma(a) ==
    IF Len(a) = 0 THEN << >>
    ELSE IF Len(a) = 1 THEN <<a[1]>>
    ELSE <<a[1], ",">> \o joinComma(Tail(a))

\* String.prototype.indexOf(pat, from) for a non-empty pat
indexOf(s, pat, from) ==
    LET hits == { p \in from .. (Len(s) - Len(pat)) :
                     SubSeq(s, p + 1, p + Len(pat)) = pat }
    IN  IF hits = {} THEN -1 ELSE Min(hits)

\* String.prototype.replace(c, by) with a string pattern: the first occurrence only
replaceFirst(s, c, by) ==
    LET hits == { i \in DOMAIN s : s[i] = c }
    IN  IF hits = {} THEN s ELSE [s EXCEPT ![Min(hits)] = by]

\* String.prototype.trim()
RECURSIVE trimLeft(_)
trimLeft(s) ==
    IF Len(s) > 0 /\ s[1] \in Whitespace THEN trimLeft(Tail(s)) ELSE s

RECURSIVE trimRight(_)
trimRight(s) ==
    IF Len(s) > 0 /\ s[Len(s)] \in Whitespace
    THEN trimRight(SubSeq(s, 1, Len(s) - 1)) ELSE s

trim(s) == trimRight(trimLeft(s))

(***************************************************************************)
(* Helper                                                                  *)
(***************************************************************************)
isLetter(c) == c \in LowerSet \cup UpperSet

isDigit(c) == c \in {"0", "1", "2", "3", "4", "5", "6", "7", "8", "9"}

equalsIgnoreCase(lhs, rhs) ==
    IF lhs = rhs THEN TRUE ELSE toLowerCase(lhs.v) = toLowerCase(rhs.v)

(***************************************************************************)
(* CharacterReader: r = [charBuf, bufPos, bufMark, stringCache]            *)
(***************************************************************************)
maxStringCacheLen == 12

stringCacheSize == 512

bufLength(r) == Len(r.charBuf)

\* charBuf[i] for a 0-based i; undefined (the EOF sentinel) out of range
charAt(r, i) == IF i >= 0 /\ i < Len(r.charBuf) THEN r.charBuf[i + 1] ELSE EOFChar

isEmpty(r) == r.bufPos >= bufLength(r)

current(r) == IF isEmpty(r) THEN EOFChar ELSE charAt(r, r.bufPos)

\* consume(): the value is current(r)
consume(r) == [r EXCEPT !.bufPos = r.bufPos + 1]

\* an unconsume() that needs three characters of buffer behind the cursor
unconsumeThrows_short(r) == r.bufPos < 3

unconsumeThrows(r) == r.bufPos < 1

\* unconsume() that leaves the cursor where it is
unconsume_stay(r) == r

unconsume(r) == [r EXCEPT !.bufPos = r.bufPos - 1]

advance(r) == [r EXCEPT !.bufPos = r.bufPos + 1]

nextIndexOf(r, seq) ==
    LET index == indexOf(r.charBuf, seq, r.bufPos)
    IN  IF index = -1 THEN -1 ELSE index - r.bufPos

RECURSIVE hashIndex(_, _, _, _)
\* (31 * v + c.charCode folded over the range) & (stringCacheSize - 1)
hashIndex(charBuf, start, count, v) ==
    IF count = 0 THEN v
    ELSE hashIndex(charBuf, start + 1, count - 1,
                   (31 * v + charCode(charBuf[start + 1])) % stringCacheSize)

rangeEquals(charBuf, start, count, cached) ==
    /\ count = Len(cached)
    /\ \A j \in 0 .. (count - 1) : charBuf[start + j + 1] = cached[j + 1]

cacheLookup(cache, index) ==
    IF index \in DOMAIN cache THEN Some(cache[index]) ELSE Null

cacheStore(cache, index, str) ==
    [i \in DOMAIN cache \cup {index} |-> IF i = index THEN str ELSE cache[i]]

\* cacheString: [v |-> the string returned, cache |-> the cache afterwards]
cacheString(charBuf, stringCache, start, count) ==
    IF count > maxStringCacheLen
    THEN [v |-> slice(charBuf, start, count), cache |-> stringCache]
    ELSE IF count < 1
    THEN [v |-> << >>, cache |-> stringCache]
    ELSE LET index == hashIndex(charBuf, start, count, 0)
             cached == cacheLookup(stringCache, index)
         IN  IF ~cached.null /\ rangeEquals(charBuf, start, count, cached.v)
             THEN [v |-> cached.v, cache |-> stringCache]
             ELSE LET fresh == joinComma(slice(charBuf, start, count))
                  IN  [v |-> fresh, cache |-> cacheStore(stringCache, index, fresh)]

\* a consuming method returns [r |-> the reader afterwards, v |-> its result]
returnConsume(r, index) ==
    LET pos == r.bufPos
        cs  == cacheString(r.charBuf, r.stringCache, pos, index)
    IN  IF index = -1
        THEN [r |-> r, v |-> << >>]
        ELSE [r |-> [r EXCEPT !.bufPos = pos + Max2(index, 0), !.stringCache = cs.cache],
              v |-> cs.v]

\* charBuf.slice(bufPos).findIndex(ch => ch in stops)
findIndexIn(r, stops) ==
    LET hits == { i \in r.bufPos .. (bufLength(r) - 1) : charAt(r, i) \in stops }
    IN  IF hits = {} THEN -1 ELSE Min(hits) - r.bufPos

consumeToAny(r, chars) == returnConsume(r, findIndexIn(r, chars))

consumeToAnySorted(r, chars) == consumeToAny(r, chars)

consumeData(r) == consumeToAny(r, {"&", "<", NUL})

consumeAttributeQuoted(r, single) ==
    returnConsume(r, findIndexIn(r, {"&", NUL} \cup (IF single THEN {"'"} ELSE {"\""})))

consumeRawData(r) == returnConsume(r, findIndexIn(r, {"<", NUL}))

consumeTagName(r) ==
    returnConsume(r, findIndexIn(r, {"\t", "\n", "\r", "\f", " ", "/", ">", "<"}))

consumeToEnd(r) ==
    LET cs == cacheString(r.charBuf, r.stringCache, r.bufPos, bufLength(r) - r.bufPos)
    IN  [r |-> [r EXCEPT !.bufPos = bufLength(r), !.stringCache = cs.cache], v |-> cs.v]

consumeTo(r, seq) ==
    LET offset == nextIndexOf(r, seq)
    IN  IF offset # -1
        THEN LET cs == cacheString(r.charBuf, r.stringCache, r.bufPos, offset)
             IN  [r |-> [r EXCEPT !.bufPos = r.bufPos + offset, !.stringCache = cs.cache],
                  v |-> cs.v]
        ELSE IF Len(seq) = 1 \/ bufLength(r) - r.bufPos < Len(seq)
        THEN consumeToEnd(r)
        ELSE LET endPos == bufLength(r) - Len(seq) + 1
                 cs == cacheString(r.charBuf, r.stringCache, r.bufPos, endPos - r.bufPos)
             IN  [r |-> [r EXCEPT !.bufPos = endPos, !.stringCache = cs.cache], v |-> cs.v]

consumeLetterSequence(r) ==
    returnConsume(r, findIndexIn(r, Range(r.charBuf) \ (LowerSet \cup UpperSet)))

consumeDigitSequence(r) ==
    returnConsume(r, findIndexIn(r, { c \in Range(r.charBuf) : ~isDigit(c) }))

\* /^[0-9a-fA-F]/.test(ch)
isHexDigit(c) ==
    isDigit(c) \/ c \in {"a", "b", "c", "d", "e", "f", "A", "B", "C", "D", "E", "F"}

consumeHexSequence(r) ==
    returnConsume(r, findIndexIn(r, { c \in Range(r.charBuf) : ~isHexDigit(c) }))

\* mark(): its body is commented out
mark(r) == r

unmark(r) == [r EXCEPT !.bufMark = -1]

rewindToMarkThrows(r) == r.bufMark = -1

rewindToMark(r) == unmark([r EXCEPT !.bufPos = r.bufMark])

matches(r, seq) ==
    IF Len(seq) > bufLength(r) - r.bufPos THEN FALSE
    ELSE \A i \in 0 .. (Len(seq) - 1) : charAt(r, r.bufPos + i) = seq[i + 1]

matchesIgnoreCase(r, seq) ==
    IF Len(seq) > bufLength(r) - r.bufPos THEN FALSE
    ELSE \A i \in 0 .. (Len(seq) - 1) : charAt(r, r.bufPos + i) = seq[i + 1]

matchesAny(r, seq) == IF isEmpty(r) THEN FALSE ELSE charAt(r, r.bufPos) \in seq

matchesLetter(r) == IF isEmpty(r) THEN FALSE ELSE isLetter(charAt(r, r.bufPos))

\* matchConsume(seq): the value is matchesIgnoreCase(r, seq)
matchConsume(r, seq) ==
    IF matchesIgnoreCase(r, seq) THEN [r EXCEPT !.bufPos = r.bufPos + Len(seq)] ELSE r

\* a containsIgnoreCase that looks at the cursor only, not at the rest of the input
containsIgnoreCase_atCursor(r, seq) ==
    matches(r, toLowerCase(seq)) \/ matches(r, toUpperCase(seq))

containsIgnoreCase(r, seq) ==
    nextIndexOf(r, toLowerCase(seq)) > -1 \/ nextIndexOf(r, toUpperCase(seq)) > -1


(***************************************************************************)
(* Token model                                                             *)
(***************************************************************************)
MaxAttributes == 512

NullList == [null |-> TRUE, v |-> << >>]

\* Tag.reset(), and the fields of a Tag that was never filled
\* Attributes.indexOfKey(name): findIndex over the list, 0-based, -1 if absent
Attributes_indexOfKey(list, name) ==
    LET hits == { i \in 1 .. Len(list) : list[i].key = name }
    IN  IF hits = {} THEN -1 ELSE Min(hits) - 1

\* Attributes.get(name): this.attributes[index] || null
Attributes_get(list, name) ==
    LET index == Attributes_indexOfKey(list, name)
    IN  IF index = -1 THEN [null |-> TRUE, v |-> [key |-> << >>, val |-> Null]]
        ELSE [null |-> FALSE, v |-> list[index + 1]]

Tag_reset ==
    [tagName |-> Null, pendingAttributeName |-> Null,
     pendingAttributeValue |-> << >>, pendingAttributeValueS |-> Null,
     hasEmptyAttributeValue |-> FALSE, hasPendingAttributeValue |-> FALSE,
     selfClosing |-> FALSE, attributes |-> NullList]

\* Attributes.add(name, value): the value is formatted with `${value}`,
\* then new Attribute(key, val) keeps key.trim() and (val || '')
Attributes_add(list, name, value) ==
    Append(list, [key |-> trim(name),
                  val |-> IF value.null THEN Some(<<"n", "u", "l", "l">>)
                          ELSE Some(value.v)])

\* Attributes.put(name, value) with a string value: find() gives undefined when no
\* key matches, which is not null, so set_key is called in both cases; with a
\* match it replaces the key by the value, after Assert.notEmpty(value)
Attributes_put(list, name, value) ==
    LET index == Attributes_indexOfKey(list, name)
    IN  IF index = -1 THEN [list |-> list, exc |-> "TypeError"]
        ELSE IF Len(value) = 0 THEN [list |-> list, exc |-> "must be not empty."]
        ELSE [list |-> [list EXCEPT ![index + 1].key = value], exc |-> "none"]

\* newAttribute() without the cap on the number of attributes
Tag_newAttribute_nocap(tag) ==
    LET attrs0 == IF tag.attributes.null THEN << >> ELSE tag.attributes.v
        name   == trim(tag.pendingAttributeName.v)
        value  == IF tag.hasPendingAttributeValue
                  THEN (IF Len(tag.pendingAttributeValue) > 0
                        THEN Some(tag.pendingAttributeValue)
                        ELSE tag.pendingAttributeValueS)
                  ELSE IF tag.hasEmptyAttributeValue THEN Some(<< >>) ELSE Null
        attrs1 == IF /\ ~tag.pendingAttributeName.null
                     /\ Len(name) > 0
                  THEN Attributes_add(attrs0, name, value)
                  ELSE attrs0
    IN  [tag EXCEPT !.attributes = [null |-> FALSE, v |-> attrs1],
                    !.pendingAttributeName = Null,
                    !.hasEmptyAttributeValue = FALSE,
                    !.hasPendingAttributeValue = FALSE,
                    !.pendingAttributeValue = << >>,
                    !.pendingAttributeValueS = Null]

Tag_newAttribute(tag) ==
    LET attrs0 == IF tag.attributes.null THEN << >> ELSE tag.attributes.v
        name   == trim(tag.pendingAttributeName.v)
        value  == IF tag.hasPendingAttributeValue
                  THEN (IF Len(tag.pendingAttributeValue) > 0
                        THEN Some(tag.pendingAttributeValue)
                        ELSE tag.pendingAttributeValueS)
                  ELSE IF tag.hasEmptyAttributeValue THEN Some(<< >>) ELSE Null
        attrs1 == IF /\ ~tag.pendingAttributeName.null
                     /\ Len(attrs0) < MaxAttributes
                     /\ Len(name) > 0
                  THEN Attributes_add(attrs0, name, value)
                  ELSE attrs0
    IN  [tag EXCEPT !.attributes = [null |-> FALSE, v |-> attrs1],
                    !.pendingAttributeName = Null,
                    !.hasEmptyAttributeValue = FALSE,
                    !.hasPendingAttributeValue = FALSE,
                    !.pendingAttributeValue = << >>,
                    !.pendingAttributeValueS = Null]

Tag_finaliseTag(tag) ==
    IF ~tag.pendingAttributeName.null THEN Tag_newAttribute(tag) ELSE tag

Tag_appendTagName(tag, append) ==
    LET app == replaceFirst(append, NUL, FFFD)
    IN  [tag EXCEPT !.tagName = IF @.null THEN Some(app) ELSE Some(@.v \o app)]

Tag_appendAttributeName(tag, append) ==
    LET app == replaceFirst(append, NUL, FFFD)
    IN  [tag EXCEPT !.pendingAttributeName =
                        IF @.null THEN Some(app) ELSE Some(@.v \o app)]

Tag_ensureAttributeValue(tag) ==
    [tag EXCEPT !.hasPendingAttributeValue = TRUE,
                !.pendingAttributeValue =
                    IF ~tag.pendingAttributeValueS.null
                    THEN @ \o tag.pendingAttributeValueS.v ELSE @,
                !.pendingAttributeValueS = Null]

\* appendAttributeValue(append: string)
Tag_appendAttributeValue(tag, append) ==
    LET tg == Tag_ensureAttributeValue(tag)
    IN  IF Len(tg.pendingAttributeValue) = 0
        THEN [tg EXCEPT !.pendingAttributeValueS = Some(append)]
        ELSE [tg EXCEPT !.pendingAttributeValue = @ \o append]

Tag_setEmptyAttributeValue(tag) == [tag EXCEPT !.hasEmptyAttributeValue = TRUE]

\* Comment.reset(), and the fields of a Comment that was never filled
Comment_reset == [data |-> << >>, dataS |-> Null, bogus |-> FALSE]

Comment_getData(c) == IF ~c.dataS.null THEN c.dataS.v ELSE c.data

Comment_append(c, append) ==
    LET c1 == IF ~c.dataS.null
              THEN [c EXCEPT !.data = @ \o c.dataS.v, !.dataS = Null]
              ELSE c
    IN  IF Len(c1.data) = 0
        THEN [c1 EXCEPT !.dataS = Some(append)]
        ELSE [c1 EXCEPT !.data = @ \o append]

\* the value of a token as the caller of read() sees it
Token(type, tagName, attributes, selfClosing, data, flag) ==
    [type |-> type, tagName |-> tagName, attributes |-> attributes,
     selfClosing |-> selfClosing, data |-> data, flag |-> flag,
     pubSysKey |-> Null, publicIdentifier |-> << >>, systemIdentifier |-> << >>]

CharacterToken(data) == Token("Character", Null, NullList, FALSE, data, FALSE)

EOFToken == Token("EOF", Null, NullList, FALSE, << >>, FALSE)

TagToken(type, tag) ==
    Token(type, tag.tagName, tag.attributes, tag.selfClosing, << >>, FALSE)

CommentToken(c) == Token("Comment", Null, NullList, FALSE, Comment_getData(c), c.bogus)

\* Doctype: name, pubSysKey, publicIdentifier, systemIdentifier, forceQuirks
Doctype_reset ==
    [name |-> << >>, pubSysKey |-> Null, publicIdentifier |-> << >>,
     systemIdentifier |-> << >>, forceQuirks |-> FALSE]

\* data is the name and flag is forceQuirks
DoctypeToken(d) ==
    [Token("Doctype", Null, NullList, FALSE, d.name, d.forceQuirks) EXCEPT
        !.pubSysKey = d.pubSysKey,
        !.publicIdentifier = d.publicIdentifier,
        !.systemIdentifier = d.systemIdentifier]

(***************************************************************************)
(* The program state                                                       *)
(***************************************************************************)
VARIABLES
    t,          \* the Tokeniser object
    r,          \* its CharacterReader
    errors,     \* its ParseErrorList: [list, maxSize]
    pc,         \* "idle", "reading" (inside read()), "thrown" (read() threw) or "unescaped"
    exception,  \* the message of the exception that left the call, or "none"
    returned,   \* the tokens read() has returned, in order
    unescaped,  \* the result of unescapeEntities(), when it was called
    emitLog,    \* history: the emitted strings since the last returned Character, concatenated
    emitSnap,   \* history: the value of emitPending when emitToken stored it
    call        \* the last direct call of a CharacterReader method, and its outcome

vars == <<t, r, errors, pc, exception, returned, unescaped, emitLog, emitSnap, call>>

\* the world a handler runs in
World == [t |-> t, r |-> r, errors |-> errors, log |-> emitLog,
          snap |-> emitSnap, exc |-> "none"]

Ok(w) == w.exc = "none"

throw(w, msg) == IF Ok(w) THEN [w EXCEPT !.exc = msg] ELSE w

withR(w, r2) == IF Ok(w) THEN [w EXCEPT !.r = r2] ELSE w

(***************************************************************************)
(* Tokeniser                                                               *)
(***************************************************************************)
\* the token object emitPending refers to, as a value
tokenOf(tk, ref) ==
    CASE ref.kind = "start" -> TagToken("StartTag", tk.startPending)
      [] ref.kind = "end" -> TagToken("EndTag", tk.endPending)
      [] ref.kind = "comment" -> CommentToken(tk.commentPending)
      [] ref.kind = "cdata" -> Token("Character", Null, NullList, FALSE, ref.data, TRUE)
      [] ref.kind = "doctype" -> DoctypeToken(tk.doctypePending)
      [] OTHER -> EOFToken

NewEOF == [kind |-> "eof", data |-> << >>]

TagPendingRef(w) == [kind |-> w.t.tagPending, data |-> << >>]

CommentPendingRef == [kind |-> "comment", data |-> << >>]

ParseErrorList_canAddError(e) == Len(e.list) < e.maxSize

pos(rd) == rd.bufPos

\* an error list that takes every error, whatever its cap
pushError_nocap(w, kind, state) ==
    IF Ok(w)
    THEN [w EXCEPT !.errors.list =
             Append(@, [pos |-> pos(w.r), kind |-> kind, state |-> state])]
    ELSE w

pushError(w, kind, state) ==
    IF Ok(w) /\ ParseErrorList_canAddError(w.errors)
    THEN [w EXCEPT !.errors.list =
             Append(@, [pos |-> pos(w.r), kind |-> kind, state |-> state])]
    ELSE w

\* error(state) that records nothing
error_silent(w, state) == w

error(w, state) == pushError(w, "char", state)

errorMsg(w, msg) == pushError(w, "msg", msg)

eofError(w, state) == pushError(w, "eof", state)

characterReferenceError(w, message) == pushError(w, "ref", message)

emitToken(w, ref) ==
    IF ~Ok(w) THEN w
    ELSE IF w.t.isEmitPending THEN throw(w, "must be false")
    ELSE LET w1 == [w EXCEPT !.t.emitPending = ref, !.t.isEmitPending = TRUE,
                             !.snap = tokenOf(w.t, ref)]
         IN  CASE ref.kind = "comment" -> throw(w1, "Method not implemented.")
               [] ref.kind = "start" ->
                    IF w.t.startPending.tagName.null \/ Len(w.t.startPending.tagName.v) = 0
                    THEN throw(w1, "must be false")
                    ELSE [w1 EXCEPT !.t.lastStartTag = w.t.startPending.tagName]
               [] ref.kind = "end" ->
                    IF ~w.t.endPending.attributes.null
                    THEN errorMsg(w1, "Attributes incorrectly present on end tag")
                    ELSE w1
               [] OTHER -> w1

\* emitString that keeps only the last emitted string
emitString_overwrite(w, str) ==
    IF ~Ok(w) THEN w
    ELSE [w EXCEPT !.t.charsString = Some(str), !.log = @ \o str]

emitString(w, str) ==
    IF ~Ok(w) THEN w
    ELSE [w EXCEPT
            !.t = IF w.t.charsString.null
                  THEN [@ EXCEPT !.charsString = Some(str)]
                  ELSE [@ EXCEPT !.charsBuilder =
                            (IF Len(@) = 0 THEN w.t.charsString.v ELSE @) \o str],
            !.log = @ \o str]

transition(w, state) == IF Ok(w) THEN [w EXCEPT !.t.state = state] ELSE w

advanceTransition(w, state) == transition(withR(w, advance(w.r)), state)

pendingTag(w) == IF w.t.tagPending = "end" THEN w.t.endPending ELSE w.t.startPending

\* a method call on t.tagPending that leaves the tag as tag2
onTagPending(w, tag2) ==
    IF ~Ok(w) THEN w
    ELSE IF w.t.tagPending = "none" THEN throw(w, "TypeError")
    ELSE IF w.t.tagPending = "end" THEN [w EXCEPT !.t.endPending = tag2]
    ELSE [w EXCEPT !.t.startPending = tag2]

\* createTagPending that selects the buffer without resetting it
createTagPending_noreset(w, start) ==
    IF ~Ok(w) THEN w
    ELSE IF start
    THEN [w EXCEPT !.t.tagPending = "start"]
    ELSE [w EXCEPT !.t.tagPending = "end"]

createTagPending(w, start) ==
    IF ~Ok(w) THEN w
    ELSE IF start
    THEN [w EXCEPT !.t.startPending = Tag_reset, !.t.tagPending = "start"]
    ELSE [w EXCEPT !.t.endPending = Tag_reset, !.t.tagPending = "end"]

emitTagPending(w) ==
    LET w1 == onTagPending(w, Tag_finaliseTag(pendingTag(w)))
    IN  emitToken(w1, TagPendingRef(w1))

createCommentPending(w) ==
    IF Ok(w) THEN [w EXCEPT !.t.commentPending = Comment_reset] ELSE w

emitCommentPending(w) == emitToken(w, CommentPendingRef)

createBogusCommentPending(w) ==
    IF Ok(w) THEN [w EXCEPT !.t.commentPending = [Comment_reset EXCEPT !.bogus = TRUE]]
    ELSE w

\* a createDoctypePending that keeps what the buffer holds
createDoctypePending_noreset(w) == w

createDoctypePending(w) ==
    IF Ok(w) THEN [w EXCEPT !.t.doctypePending = Doctype_reset] ELSE w

\* an emitDoctypePending that emits the token twice
emitDoctypePending_twice(w) ==
    emitToken(emitToken(w, [kind |-> "doctype", data |-> << >>]),
              [kind |-> "doctype", data |-> << >>])

emitDoctypePending(w) == emitToken(w, [kind |-> "doctype", data |-> << >>])

\* forceQuirks left as it is
forceQuirks_unset(w) == w

\* t.doctypePending.forceQuirks = true
forceQuirks(w) == IF Ok(w) THEN [w EXCEPT !.t.doctypePending.forceQuirks = TRUE] ELSE w

\* t.doctypePending.name.append(str)
doctypeNameAppend(w, str) ==
    IF Ok(w) THEN [w EXCEPT !.t.doctypePending.name = @ \o str] ELSE w

\* t.doctypePending.publicIdentifier.append(str)
publicIdentifierAppend(w, str) ==
    IF Ok(w) THEN [w EXCEPT !.t.doctypePending.publicIdentifier = @ \o str] ELSE w

\* t.doctypePending.systemIdentifier.append(str)
systemIdentifierAppend(w, str) ==
    IF Ok(w) THEN [w EXCEPT !.t.doctypePending.systemIdentifier = @ \o str] ELSE w

\* t.doctypePending.pubSysKey = key
setPubSysKey(w, key) ==
    IF Ok(w) THEN [w EXCEPT !.t.doctypePending.pubSysKey = Some(key)] ELSE w

commentAppend(w, str) ==
    IF Ok(w) THEN [w EXCEPT !.t.commentPending = Comment_append(@, str)] ELSE w

createTempBuffer(w) == IF Ok(w) THEN [w EXCEPT !.t.dataBuffer = << >>] ELSE w

dataBufferAppend(w, str) == IF Ok(w) THEN [w EXCEPT !.t.dataBuffer = @ \o str] ELSE w

isAppropriateEndTagToken(w) ==
    ~w.t.lastStartTag.null /\ equalsIgnoreCase(pendingTag(w).tagName, w.t.lastStartTag)

appropriateEndTagName(w) == w.t.lastStartTag

consumeCharacterReference(w) == throw(w, "Method not implemented.")


isAppropriateEndTagTokenThrows(w) ==
    /\ ~w.t.lastStartTag.null
    /\ \/ w.t.tagPending = "none"
       \/ pendingTag(w).tagName.null
       \/ Len(pendingTag(w).tagName.v) = 0

unconsumeW(w) ==
    IF ~Ok(w) THEN w
    ELSE IF unconsumeThrows(w.r) THEN throw(w, "WTF: No buffer left to unconsume.")
    ELSE withR(w, unconsume(w.r))

appendTagName(w, str) == onTagPending(w, Tag_appendTagName(pendingTag(w), str))

(***************************************************************************)
(* Inputs                                                                  *)
(***************************************************************************)
Sigma == {"a", "<", ">", "/", "!", "-", "&", NUL, " ", "=", "\""}

RECURSIVE SeqsUpTo(_)
SeqsUpTo(n) ==
    IF n = 0 THEN { << >> }
    ELSE LET shorter == SeqsUpTo(n - 1)
         IN  shorter \cup { Append(s, c) : s \in { x \in shorter : Len(x) = n - 1 }, c \in Sigma }

ShortInputs == SeqsUpTo(MaxLen)

InputWellFormed ==
    <<"<","p"," ","c","l","a","s","s","=","\"","a","\"",">",
      "H","i"," ","&","a","m","p",";"," ","b","y","e","<","/","p",">">>

InputTitle ==
    <<"<","t","i","t","l","e",">","a","<","b",">","c","<","/","t","i","t","l","e",">">>

InputOpenComment == <<"<","!","-","-"," ","a","b","c">>

InputHrefUnquoted == <<"<","a"," ","h","r","e","f","=","f","o","o",">">>

InputHrefSingle == <<"<","a"," ","h","r","e","f","=","'","f","o","o","'",">">>

InputHrefDouble == <<"<","a"," ","h","r","e","f","=","\"","f","o","o","\"",">">>

InputDisabled == <<"<","a"," ","d","i","s","a","b","l","e","d",">">>

InputHrefEmpty == <<"<","a"," ","h","r","e","f","=","\"","\"",">">>

InputNoEntity ==
    <<"&","n","o","t","a","r","e","a","l","e","n","t","i","t","y",";">>

InputText == <<"a","b","c">>

SpecInputs ==
    {InputWellFormed, InputTitle, InputOpenComment, InputHrefUnquoted,
     InputHrefSingle, InputHrefDouble, InputDisabled, InputHrefEmpty,
     InputNoEntity, InputText}

InputAttrSpace == <<"<","a","b"," ","c"," ",">">>

InputRcdataRef == <<"<","a","b",">","&">>

InputRcdataEnd == <<"<","a","b",">","<","/","a",">">>

InputCommentDash == <<"<","!","-","-","-">>

InputCommentBang == <<"<","!","-","-","a","-","-","!">>

InputTagNuls == <<"<","a",NUL,NUL,NUL,">">>

InputRawNul == <<"<","a","b",">",NUL,"a">>

InputDupAttr == <<"<","a","b"," ","c"," ","c",">">>

InputDoctype == <<"<","!","D","O","C","T","Y","P","E",">">>

\* a "<" before a letter in Rcdata, with the end tag of the start tag after it
InputRcdataLetter == <<"<","a","b",">","<","a","<","/","a",">">>

\* an end tag in Rcdata whose name is not the name of the start tag
InputRcdataOther == <<"<","a","b",">","<","/","b","a",">">>

\* the shortest way into BogusComment
InputProcessing == <<"<","?">>

\* a start tag with an attribute, then a start tag without
InputTwoTags == <<"<","a","b"," ","c",">","<","a","b",">">>

\* two declarations that MarkupDeclarationOpen sends to Doctype, the first with
\* the name U+FFFD
InputTwoDoctypes ==
    <<"<","!","a","a","a","a","a","a","a"," ",NUL,">",
      "<","!","a","a","a","a","a","a","a"," ",">">>

\* an attribute named by a stray quote, whitespace, then a NUL
InputAttrNul == <<"<","a","b"," ","\""," ",NUL,">">>

\* a start tag, then text that ends at a "<"
InputRawText == <<"<","a","b",">","a","<">>

LongInputs ==
    {InputAttrSpace, InputRcdataRef, InputRcdataEnd, InputCommentDash, InputCommentBang,
     InputTagNuls, InputRawNul, InputDupAttr, InputDoctype, InputRcdataLetter,
     InputRcdataOther, InputProcessing, InputTwoTags, InputTwoDoctypes, InputAttrNul,
     InputRawText}

Inputs == ShortInputs \cup SpecInputs \cup LongInputs

(***************************************************************************)
(* Construction                                                            *)
(***************************************************************************)
NoToken == [kind |-> "none", data |-> << >>]

NewTokeniser ==
    [state |-> "Data", emitPending |-> NoToken, isEmitPending |-> FALSE,
     charsString |-> Null, charsBuilder |-> << >>, dataBuffer |-> << >>,
     tagPending |-> "none", startPending |-> Tag_reset, endPending |-> Tag_reset,
     commentPending |-> Comment_reset, doctypePending |-> Doctype_reset,
     lastStartTag |-> Null]

NewCharacterReader(input) ==
    [charBuf |-> input, bufPos |-> 0, bufMark |-> -1, stringCache |-> << >>]

\* no CharacterReader method was called directly yet
NoCall ==
    [op |-> "none", arg |-> << >>, pos |-> 0, v |-> << >>, ret |-> FALSE,
     threw |-> FALSE, marked |-> -1]

Init ==
    /\ t = NewTokeniser
    /\ \E input \in Inputs : r = NewCharacterReader(input)
    /\ \E maxSize \in {0, MaxErrors} : errors = [list |-> << >>, maxSize |-> maxSize]
    /\ pc = "idle"
    /\ exception = "none"
    /\ returned = << >>
    /\ unescaped = Null
    /\ emitLog = << >>
    /\ emitSnap = EOFToken
    /\ call = NoCall

(***************************************************************************)
(* Tokeniser.read()                                                        *)
(***************************************************************************)
\* the caller calls read()
Read ==
    /\ pc = "idle"
    /\ Len(returned) < MaxReturned
    /\ pc' = "reading"
    /\ UNCHANGED <<t, r, errors, exception, returned, unescaped, emitLog, emitSnap, call>>

\* read() leaves its loop and returns a token
ReadReturn ==
    /\ pc = "reading"
    /\ t.isEmitPending
    /\ pc' = "idle"
    /\ IF Len(t.charsBuilder) # 0
       THEN /\ returned' = Append(returned, CharacterToken(t.charsBuilder))
            /\ t' = [t EXCEPT !.charsBuilder = << >>, !.charsString = Null]
            /\ emitLog' = << >>
       ELSE IF ~t.charsString.null
       THEN /\ returned' = Append(returned, CharacterToken(t.charsString.v))
            /\ t' = [t EXCEPT !.charsString = Null]
            /\ emitLog' = << >>
       ELSE /\ returned' = Append(returned, tokenOf(t, t.emitPending))
            /\ t' = [t EXCEPT !.isEmitPending = FALSE]
            /\ emitLog' = emitLog
    /\ UNCHANGED <<r, errors, exception, unescaped, emitSnap, call>>

\* one pass of the loop of read(): this.state.read(this, this.reader)
Step(name) == pc = "reading" /\ ~t.isEmitPending /\ t.state = name

Commit(world) ==
    \E w \in {world} :
        /\ t' = w.t
        /\ r' = w.r
        /\ errors' = w.errors
        /\ emitLog' = w.log
        /\ emitSnap' = w.snap
        /\ exception' = w.exc
        /\ pc' = IF Ok(w) THEN "reading" ELSE "thrown"
        /\ UNCHANGED <<returned, unescaped, call>>

(***************************************************************************)
(* TokeniserState                                                          *)
(***************************************************************************)
readCharRef(w, advanceState) ==
    LET w1 == consumeCharacterReference(w)
    IN  transition(emitString(w1, <<"&">>), advanceState)

anythingElse(w) ==
    transition(unconsumeW(emitString(emitString(w, <<"<", "/">>), w.t.dataBuffer)), "Rcdata")

Data ==
    /\ Step("Data")
    /\ LET w == World
           c == current(r)
       IN  Commit(
             CASE c = "&" -> advanceTransition(w, "CharacterReferenceInData")
               [] c = "<" -> advanceTransition(w, "TagOpen")
               [] c = NUL -> LET w1 == error(w, "Data")
                             IN  emitString(withR(w1, consume(w1.r)), <<current(w1.r)>>)
               [] c = EOFChar -> emitToken(w, NewEOF)
               [] OTHER -> LET rc == consumeData(r)
                           IN  emitString(withR(w, rc.r), rc.v))

CharacterReferenceInData ==
    /\ Step("CharacterReferenceInData")
    /\ Commit(readCharRef(World, "Data"))

Rcdata ==
    /\ Step("Rcdata")
    /\ LET w == World
           c == current(r)
       IN  Commit(
             CASE c = "&" -> advanceTransition(w, "CharacterReferenceInRcdata")
               [] c = "<" -> advanceTransition(w, "RcdataLessthanSign")
               [] c = NUL -> emitString(withR(error(w, "Rcdata"), advance(r)), <<FFFD>>)
               [] c = EOFChar -> emitToken(w, NewEOF)
               [] OTHER -> LET rc == consumeData(r)
                           IN  emitString(withR(w, rc.r), rc.v))

CharacterReferenceInRcdata ==
    /\ Step("CharacterReferenceInRcdata")
    /\ Commit(readCharRef(World, "Rcdata"))

TagOpen ==
    /\ Step("TagOpen")
    /\ LET w == World
           c == current(r)
       IN  Commit(
             CASE c = "!" -> advanceTransition(w, "MarkupDeclarationOpen")
               [] c = "/" -> advanceTransition(w, "EndTagOpen")
               [] c = "?" -> advanceTransition(createBogusCommentPending(w), "BogusComment")
               [] OTHER ->
                    IF matchesLetter(r)
                    THEN transition(createTagPending(w, TRUE), "TagName")
                    ELSE transition(emitString(error(w, "TagOpen"), <<"<">>), "Data"))

EndTagOpen ==
    /\ Step("EndTagOpen")
    /\ LET w == World
       IN  Commit(
             IF isEmpty(r)
             THEN transition(emitString(eofError(w, "EndTagOpen"), <<"<", "/">>), "Data")
             ELSE IF matchesLetter(r)
             THEN transition(createTagPending(w, FALSE), "TagName")
             ELSE IF matches(r, <<">">>)
             THEN advanceTransition(error(w, "EndTagOpen"), "Data")
             ELSE advanceTransition(createBogusCommentPending(error(w, "EndTagOpen")),
                                    "BogusComment"))

\* TagName that emits the pending tag at the end of the input
TagName_emitAtEof ==
    /\ Step("TagName")
    /\ LET rc == consumeTagName(r)
           w  == appendTagName(withR(World, rc.r), rc.v)
           c  == current(w.r)
           w1 == withR(w, consume(w.r))
       IN  Commit(
             CASE c \in Whitespace -> transition(w1, "BeforeAttributeName")
               [] c = "/" -> transition(w1, "SelfClosingStartTag")
               [] c = "<" -> transition(emitTagPending(error(unconsumeW(w1), "TagName")), "Data")
               [] c = ">" -> transition(emitTagPending(w1), "Data")
               [] c = NUL -> appendTagName(w1, <<FFFD>>)
               [] c = EOFChar -> transition(emitTagPending(eofError(w1, "TagName")), "Data")
               [] OTHER -> appendTagName(w1, <<c>>))

TagName ==
    /\ Step("TagName")
    /\ LET rc == consumeTagName(r)
           w  == appendTagName(withR(World, rc.r), rc.v)
           c  == current(w.r)
           w1 == withR(w, consume(w.r))
       IN  Commit(
             CASE c \in Whitespace -> transition(w1, "BeforeAttributeName")
               [] c = "/" -> transition(w1, "SelfClosingStartTag")
               [] c = "<" -> transition(emitTagPending(error(unconsumeW(w1), "TagName")), "Data")
               [] c = ">" -> transition(emitTagPending(w1), "Data")
               [] c = NUL -> appendTagName(w1, <<FFFD>>)
               [] c = EOFChar -> transition(eofError(w1, "TagName"), "Data")
               [] OTHER -> appendTagName(w1, <<c>>))

RcdataLessthanSign ==
    /\ Step("RcdataLessthanSign")
    /\ LET w == World
       IN  Commit(
             IF matches(r, <<"/">>)
             THEN advanceTransition(createTempBuffer(w), "RCDATAEndTagOpen")
             ELSE IF /\ matchesLetter(r)
                     /\ ~appropriateEndTagName(w).null
                     /\ ~containsIgnoreCase(r, <<"<", "/">> \o appropriateEndTagName(w).v)
             THEN LET w1 == createTagPending(w, FALSE)
                      w2 == onTagPending(w1, [pendingTag(w1) EXCEPT
                                                 !.tagName = appropriateEndTagName(w)])
                  IN  transition(emitTagPending(w2), "TagOpen")
             ELSE transition(emitString(w, <<"<">>), "Rcdata"))

RCDATAEndTagOpen ==
    /\ Step("RCDATAEndTagOpen")
    /\ LET w == World
       IN  Commit(
             IF matchesLetter(r)
             THEN LET w1 == appendTagName(createTagPending(w, FALSE), <<current(r)>>)
                  IN  advanceTransition(dataBufferAppend(w1, <<current(r)>>), "RCDATAEndTagName")
             ELSE transition(emitString(w, <<"<", "/">>), "Rcdata"))

RCDATAEndTagName ==
    /\ Step("RCDATAEndTagName")
    /\ LET w == World
       IN  Commit(
             IF matchesLetter(r)
             THEN LET rc == consumeLetterSequence(r)
                  IN  dataBufferAppend(appendTagName(withR(w, rc.r), rc.v), rc.v)
             ELSE LET c  == current(r)
                      w1 == withR(w, consume(r))
                  IN  IF c \in Whitespace \cup {"/", ">"}
                      THEN IF isAppropriateEndTagTokenThrows(w1)
                           THEN throw(w1, "must be false")
                           ELSE IF ~isAppropriateEndTagToken(w1) THEN anythingElse(w1)
                           ELSE IF c \in Whitespace THEN transition(w1, "BeforeAttributeName")
                           ELSE IF c = "/" THEN transition(w1, "SelfClosingStartTag")
                           ELSE transition(emitTagPending(w1), "Data")
                      ELSE anythingElse(w1))


attributeNameCharsSorted == {"\t", "\n", "\f", "\r", " ", "\"", "'", "/", "<", "=", ">"}

attributeValueUnquoted ==
    {NUL, "\t", "\n", "\f", "\r", " ", "\"", "&", "'", "<", "=", ">", GRAVE}

newAttribute(w) == onTagPending(w, Tag_newAttribute(pendingTag(w)))

appendAttributeName(w, str) ==
    onTagPending(w, Tag_appendAttributeName(pendingTag(w), str))

appendAttributeValue(w, str) ==
    onTagPending(w, Tag_appendAttributeValue(pendingTag(w), str))

setEmptyAttributeValue(w) ==
    onTagPending(w, Tag_setEmptyAttributeValue(pendingTag(w)))

setSelfClosing(w) == onTagPending(w, [pendingTag(w) EXCEPT !.selfClosing = TRUE])

\* the case '&' of the attribute value states
attributeCharRef(w) ==
    appendAttributeValue(consumeCharacterReference(w), <<"&">>)

BeforeAttributeName ==
    /\ Step("BeforeAttributeName")
    /\ LET c == current(r)
           w == withR(World, consume(r))
       IN  Commit(
             CASE c \in Whitespace -> w
               [] c = "/" -> transition(w, "SelfClosingStartTag")
               [] c = "<" -> transition(emitTagPending(
                                 error(unconsumeW(w), "BeforeAttributeName")), "Data")
               [] c = ">" -> transition(emitTagPending(w), "Data")
               [] c = NUL -> transition(newAttribute(
                                 error(unconsumeW(w), "BeforeAttributeName")), "AttributeName")
               [] c = EOFChar -> transition(eofError(w, "BeforeAttributeName"), "Data")
               [] c \in {"\"", "'", "="} ->
                    transition(appendAttributeName(
                        newAttribute(error(w, "BeforeAttributeName")), <<c>>), "AttributeName")
               [] OTHER -> transition(unconsumeW(newAttribute(w)), "AttributeName"))

AttributeName ==
    /\ Step("AttributeName")
    /\ LET rc == consumeToAnySorted(r, attributeNameCharsSorted)
           w0 == appendAttributeName(withR(World, rc.r), rc.v)
           c  == current(w0.r)
           w  == withR(w0, consume(w0.r))
       IN  Commit(
             CASE c \in Whitespace -> transition(w, "AfterAttributeName")
               [] c = "/" -> transition(w, "SelfClosingStartTag")
               [] c = "=" -> transition(w, "BeforeAttributeValue")
               [] c = ">" -> transition(emitTagPending(w), "Data")
               [] c = EOFChar -> transition(eofError(w, "AttributeName"), "Data")
               [] c \in {"\"", "'", "<"} ->
                    appendAttributeName(error(w, "AttributeName"), <<c>>)
               [] OTHER -> appendAttributeName(w, <<c>>))

AfterAttributeName ==
    /\ Step("AfterAttributeName")
    /\ LET c == current(r)
           w == withR(World, consume(r))
       IN  Commit(
             CASE c \in Whitespace -> w
               [] c = "/" -> transition(w, "SelfClosingStartTag")
               [] c = "=" -> transition(w, "BeforeAttributeValue")
               [] c = ">" -> transition(emitTagPending(w), "Data")
               [] c = NUL -> transition(appendAttributeName(
                                 error(w, "AfterAttributeName"), <<FFFD>>), "AttributeName")
               [] c = EOFChar -> transition(eofError(w, "AfterAttributeName"), "Data")
               [] c \in {"\"", "'", "<"} ->
                    transition(appendAttributeName(
                        newAttribute(error(w, "AfterAttributeName")), <<c>>), "AttributeName")
               [] OTHER -> transition(unconsumeW(newAttribute(w)), "AttributeName"))

BeforeAttributeValue ==
    /\ Step("BeforeAttributeValue")
    /\ LET c == current(r)
           w == withR(World, consume(r))
       IN  Commit(
             CASE c \in Whitespace -> w
               [] c = "\"" -> transition(w, "AttributeValue_doubleQuoted")
               [] c = "&" -> transition(unconsumeW(w), "AttributeValue_unquoted")
               [] c = "'" -> transition(w, "AttributeValue_singleQuoted")
               [] c = NUL -> transition(appendAttributeValue(
                                 error(w, "BeforeAttributeValue"), <<FFFD>>),
                                 "AttributeValue_unquoted")
               [] c = EOFChar -> transition(emitTagPending(
                                     eofError(w, "BeforeAttributeValue")), "Data")
               [] c = ">" -> transition(emitTagPending(
                                 error(w, "BeforeAttributeValue")), "Data")
               [] c \in {"<", "=", GRAVE} ->
                    transition(appendAttributeValue(
                        error(w, "BeforeAttributeValue"), <<c>>), "AttributeValue_unquoted")
               [] OTHER -> transition(unconsumeW(w), "AttributeValue_unquoted"))

\* the body shared by AttributeValue_doubleQuoted and AttributeValue_singleQuoted
attributeValueQuoted(w0, single, name) ==
    LET rc == consumeAttributeQuoted(w0.r, single)
        w1 == withR(w0, rc.r)
        w2 == IF Len(rc.v) > 0 THEN appendAttributeValue(w1, rc.v)
              ELSE setEmptyAttributeValue(w1)
        c  == current(w2.r)
        w  == withR(w2, consume(w2.r))
    IN  CASE c = (IF single THEN "'" ELSE "\"") -> transition(w, "AfterAttributeValue_quoted")
          [] c = "&" -> attributeCharRef(w)
          [] c = NUL -> appendAttributeValue(error(w, name), <<FFFD>>)
          [] c = EOFChar -> transition(eofError(w, name), "Data")
          [] OTHER -> appendAttributeValue(w, <<c>>)

AttributeValue_doubleQuoted ==
    /\ Step("AttributeValue_doubleQuoted")
    /\ Commit(attributeValueQuoted(World, FALSE, "AttributeValue_doubleQuoted"))

AttributeValue_singleQuoted ==
    /\ Step("AttributeValue_singleQuoted")
    /\ Commit(attributeValueQuoted(World, TRUE, "AttributeValue_singleQuoted"))

AttributeValue_unquoted ==
    /\ Step("AttributeValue_unquoted")
    /\ LET rc == consumeToAnySorted(r, attributeValueUnquoted)
           w1 == withR(World, rc.r)
           w2 == IF Len(rc.v) > 0 THEN appendAttributeValue(w1, rc.v) ELSE w1
           c  == current(w2.r)
           w  == withR(w2, consume(w2.r))
       IN  Commit(
             CASE c \in Whitespace -> transition(w, "BeforeAttributeName")
               [] c = "&" -> attributeCharRef(w)
               [] c = ">" -> transition(emitTagPending(w), "Data")
               [] c = NUL -> appendAttributeValue(error(w, "AttributeValue_unquoted"), <<FFFD>>)
               [] c = EOFChar -> transition(eofError(w, "AttributeValue_unquoted"), "Data")
               [] c \in {"\"", "'", "<", "=", GRAVE} ->
                    appendAttributeValue(error(w, "AttributeValue_unquoted"), <<c>>)
               [] OTHER -> appendAttributeValue(w, <<c>>))

AfterAttributeValue_quoted ==
    /\ Step("AfterAttributeValue_quoted")
    /\ LET c == current(r)
           w == withR(World, consume(r))
       IN  Commit(
             CASE c \in Whitespace -> transition(w, "BeforeAttributeName")
               [] c = "/" -> transition(w, "SelfClosingStartTag")
               [] c = ">" -> transition(emitTagPending(w), "Data")
               [] c = EOFChar -> transition(eofError(w, "AfterAttributeValue_quoted"), "Data")
               [] OTHER -> transition(error(unconsumeW(w), "AfterAttributeValue_quoted"),
                                      "BeforeAttributeName"))

SelfClosingStartTag ==
    /\ Step("SelfClosingStartTag")
    /\ LET c == current(r)
           w == withR(World, consume(r))
       IN  Commit(
             CASE c = ">" -> transition(emitTagPending(setSelfClosing(w)), "Data")
               [] c = EOFChar -> transition(eofError(w, "SelfClosingStartTag"), "Data")
               [] OTHER -> transition(error(unconsumeW(w), "SelfClosingStartTag"),
                                      "BeforeAttributeName"))

BogusComment ==
    /\ Step("BogusComment")
    /\ LET w0 == unconsumeW(World)
           rc == consumeTo(w0.r, <<">">>)
           w1 == commentAppend(withR(w0, rc.r), rc.v)
           next == current(w1.r)
           w  == withR(w1, consume(w1.r))
       IN  Commit(
             IF next = ">" \/ next = EOFChar
             THEN transition(emitCommentPending(w), "Data")
             ELSE w)

\* CharReader.matchesIgnoreCase: true when some character differs
CharReader_matchesIgnoreCase(rd, string) ==
    IF Len(string) > bufLength(rd) - rd.bufPos THEN FALSE
    ELSE \E offset \in 0 .. (Len(string) - 1) :
            toLowerCaseChar(string[offset + 1]) # toLowerCaseChar(charAt(rd, rd.bufPos + offset))

\* matchConsumeIgnoreCase(seq): the value is CharReader_matchesIgnoreCase(rd, seq)
matchConsumeIgnoreCase(rd, seq) ==
    IF CharReader_matchesIgnoreCase(rd, seq)
    THEN [rd EXCEPT !.bufPos = rd.bufPos + Len(seq)] ELSE rd

MarkupDeclarationOpen ==
    /\ Step("MarkupDeclarationOpen")
    /\ LET w == World
       IN  Commit(
             IF matchesIgnoreCase(r, <<"-", "-">>)
             THEN transition(createCommentPending(withR(w, matchConsume(r, <<"-", "-">>))),
                             "CommentStart")
             ELSE IF CharReader_matchesIgnoreCase(r, <<"D", "O", "C", "T", "Y", "P", "E">>)
             THEN transition(withR(w, matchConsumeIgnoreCase(r,
                                 <<"D", "O", "C", "T", "Y", "P", "E">>)), "Doctype")
             ELSE IF matchesIgnoreCase(r, <<"[", "C", "D", "A", "T", "A", "[">>)
             THEN transition(createTempBuffer(withR(w, matchConsume(r,
                                 <<"[", "C", "D", "A", "T", "A", "[">>))), "CdataSection")
             ELSE advanceTransition(createBogusCommentPending(
                                        error(w, "MarkupDeclarationOpen")), "BogusComment"))

CommentStart ==
    /\ Step("CommentStart")
    /\ LET c == current(r)
           w == withR(World, consume(r))
       IN  Commit(
             CASE c = "-" -> transition(w, "CommentStartDash")
               [] c = NUL -> transition(commentAppend(error(w, "CommentStart"), <<FFFD>>),
                                        "Comment")
               [] c = ">" -> transition(emitCommentPending(error(w, "CommentStart")), "Data")
               [] c = EOFChar -> transition(emitCommentPending(
                                     eofError(w, "CommentStart")), "Data")
               [] OTHER -> transition(unconsumeW(w), "Comment"))

CommentStartDash ==
    /\ Step("CommentStartDash")
    /\ LET c == current(r)
           w == withR(World, consume(r))
       IN  Commit(
             CASE c = "-" -> transition(w, "CommentStartDash")
               [] c = NUL -> transition(commentAppend(error(w, "CommentStartDash"), <<FFFD>>),
                                        "Comment")
               [] c = ">" -> transition(emitCommentPending(
                                 error(w, "CommentStartDash")), "Data")
               [] c = EOFChar -> transition(emitCommentPending(
                                     eofError(w, "CommentStartDash")), "Data")
               [] OTHER -> transition(commentAppend(w, <<c>>), "Comment"))

Comment ==
    /\ Step("Comment")
    /\ LET w == World
           c == current(r)
       IN  Commit(
             CASE c = "-" -> advanceTransition(w, "CommentEndDash")
               [] c = NUL -> commentAppend(withR(error(w, "Comment"), advance(r)), <<FFFD>>)
               [] c = EOFChar -> transition(emitCommentPending(eofError(w, "Comment")), "Data")
               [] OTHER -> LET rc == consumeToAny(r, {"-", NUL})
                           IN  commentAppend(withR(w, rc.r), rc.v))

CommentEndDash ==
    /\ Step("CommentEndDash")
    /\ LET c == current(r)
           w == withR(World, consume(r))
       IN  Commit(
             CASE c = "-" -> transition(w, "CommentEnd")
               [] c = NUL -> transition(commentAppend(commentAppend(
                                 error(w, "CommentEndDash"), <<"-">>), <<FFFD>>), "Comment")
               [] c = EOFChar -> transition(emitCommentPending(
                                     eofError(w, "CommentEndDash")), "Data")
               [] OTHER -> transition(commentAppend(commentAppend(w, <<"-">>), <<c>>),
                                      "Comment"))

CommentEnd ==
    /\ Step("CommentEnd")
    /\ LET c == current(r)
           w == withR(World, consume(r))
       IN  Commit(
             CASE c = ">" -> transition(emitCommentPending(w), "Data")
               [] c = NUL -> transition(commentAppend(commentAppend(
                                 error(w, "CommentEnd"), <<"-", "-">>), <<FFFD>>), "Comment")
               [] c = "!" -> transition(error(w, "CommentEnd"), "CommentEndBang")
               [] c = "-" -> commentAppend(error(w, "CommentEnd"), <<"-">>)
               [] c = EOFChar -> transition(emitCommentPending(
                                     eofError(w, "CommentEnd")), "Data")
               [] OTHER -> transition(commentAppend(commentAppend(
                               error(w, "CommentEnd"), <<"-", "-">>), <<c>>), "Comment"))

CommentEndBang ==
    /\ Step("CommentEndBang")
    /\ LET c == current(r)
           w == withR(World, consume(r))
       IN  Commit(
             CASE c = "-" -> transition(commentAppend(w, <<"-", "-", "!">>), "CommentEndDash")
               [] c = ">" -> transition(emitCommentPending(w), "Data")
               [] c = NUL -> transition(commentAppend(commentAppend(
                                 error(w, "CommentEndBang"), <<"-", "-", "!">>), <<FFFD>>),
                                 "Comment")
               [] c = EOFChar -> transition(emitCommentPending(
                                     eofError(w, "CommentEndBang")), "Data")
               [] OTHER -> transition(commentAppend(commentAppend(w, <<"-", "-", "!">>), <<c>>),
                                      "Comment"))

PUBLIC_KEY == <<"P", "U", "B", "L", "I", "C">>

SYSTEM_KEY == <<"S", "Y", "S", "T", "E", "M">>

Doctype ==
    /\ Step("Doctype")
    /\ LET c == current(r)
           w == withR(World, consume(r))
       IN  Commit(
             CASE c \in Whitespace -> transition(w, "BeforeDoctypeName")
               [] c = EOFChar -> transition(emitDoctypePending(forceQuirks(createDoctypePending(
                                     error(eofError(w, "Doctype"), "Doctype")))), "Data")
               [] c = ">" -> transition(emitDoctypePending(forceQuirks(createDoctypePending(
                                 error(w, "Doctype")))), "Data")
               [] OTHER -> transition(error(w, "Doctype"), "BeforeDoctypeName"))

BeforeDoctypeName ==
    /\ Step("BeforeDoctypeName")
    /\ LET c == current(r)
           w == withR(World, consume(r))
       IN  Commit(
             IF matchesLetter(r)
             THEN transition(createDoctypePending(World), "DoctypeName")
             ELSE CASE c \in Whitespace -> w
                    [] c = NUL -> transition(doctypeNameAppend(createDoctypePending(
                                      error(w, "BeforeDoctypeName")), <<FFFD>>), "DoctypeName")
                    [] c = EOFChar -> transition(emitDoctypePending(forceQuirks(
                                          createDoctypePending(eofError(w, "BeforeDoctypeName")))),
                                          "Data")
                    [] OTHER -> transition(doctypeNameAppend(createDoctypePending(w), <<c>>),
                                           "DoctypeName"))

DoctypeName ==
    /\ Step("DoctypeName")
    /\ LET c == current(r)
           w == withR(World, consume(r))
           name == consumeLetterSequence(r)
       IN  Commit(
             IF matchesLetter(r)
             THEN doctypeNameAppend(withR(World, name.r), name.v)
             ELSE CASE c = ">" -> transition(emitDoctypePending(w), "Data")
                    [] c \in Whitespace -> transition(w, "AfterDoctypeName")
                    [] c = NUL -> doctypeNameAppend(error(w, "DoctypeName"), <<FFFD>>)
                    [] c = EOFChar -> transition(emitDoctypePending(forceQuirks(
                                          eofError(w, "DoctypeName"))), "Data")
                    [] OTHER -> doctypeNameAppend(w, <<c>>))

AfterDoctypeName ==
    /\ Step("AfterDoctypeName")
    /\ LET w == World
       IN  Commit(
             IF isEmpty(r)
             THEN transition(emitDoctypePending(forceQuirks(
                      eofError(w, "AfterDoctypeName"))), "Data")
             ELSE IF matchesAny(r, Whitespace) THEN withR(w, advance(r))
             ELSE IF matches(r, <<">">>)
             THEN advanceTransition(emitDoctypePending(w), "Data")
             ELSE IF CharReader_matchesIgnoreCase(r, PUBLIC_KEY)
             THEN transition(setPubSysKey(withR(w, matchConsumeIgnoreCase(r, PUBLIC_KEY)),
                                          PUBLIC_KEY), "AfterDoctypePublicKeyword")
             ELSE IF CharReader_matchesIgnoreCase(r, SYSTEM_KEY)
             THEN transition(setPubSysKey(withR(w, matchConsumeIgnoreCase(r, SYSTEM_KEY)),
                                          SYSTEM_KEY), "AfterDoctypeSystemKeyword")
             ELSE advanceTransition(forceQuirks(error(w, "AfterDoctypeName")), "BogusDoctype"))

AfterDoctypePublicKeyword ==
    /\ Step("AfterDoctypePublicKeyword")
    /\ LET c == current(r)
           w == withR(World, consume(r))
       IN  Commit(
             CASE c \in Whitespace -> transition(w, "BeforeDoctypePublicIdentifier")
               [] c = "\"" -> transition(error(w, "AfterDoctypePublicKeyword"), "DoctypePublicIdentifier_doubleQuoted")
               [] c = "'" -> transition(error(w, "AfterDoctypePublicKeyword"), "DoctypePublicIdentifier_singleQuoted")
               [] c = ">" -> transition(emitDoctypePending(forceQuirks(
                                 error(w, "AfterDoctypePublicKeyword"))), "Data")
               [] c = EOFChar -> transition(emitDoctypePending(forceQuirks(
                                     eofError(w, "AfterDoctypePublicKeyword"))), "Data")
               [] OTHER -> transition(forceQuirks(error(w, "AfterDoctypePublicKeyword")), "BogusDoctype"))

BeforeDoctypePublicIdentifier ==
    /\ Step("BeforeDoctypePublicIdentifier")
    /\ LET c == current(r)
           w == withR(World, consume(r))
       IN  Commit(
             CASE c \in Whitespace -> w
               [] c = "\"" -> transition(w, "DoctypePublicIdentifier_doubleQuoted")
               [] c = "'" -> transition(w, "DoctypePublicIdentifier_singleQuoted")
               [] c = ">" -> transition(emitDoctypePending(forceQuirks(
                                 error(w, "BeforeDoctypePublicIdentifier"))), "Data")
               [] c = EOFChar -> transition(emitDoctypePending(forceQuirks(
                                     eofError(w, "BeforeDoctypePublicIdentifier"))), "Data")
               [] OTHER -> transition(forceQuirks(error(w, "BeforeDoctypePublicIdentifier")), "BogusDoctype"))

DoctypePublicIdentifier_doubleQuoted ==
    /\ Step("DoctypePublicIdentifier_doubleQuoted")
    /\ LET c == current(r)
           w == withR(World, consume(r))
       IN  Commit(
             CASE c = "\"" -> transition(w, "AfterDoctypePublicIdentifier")
               [] c = NUL -> publicIdentifierAppend(error(w, "DoctypePublicIdentifier_doubleQuoted"), <<FFFD>>)
               [] c = ">" -> transition(emitDoctypePending(forceQuirks(
                                 error(w, "DoctypePublicIdentifier_doubleQuoted"))), "Data")
               [] c = EOFChar -> transition(emitDoctypePending(forceQuirks(
                                     eofError(w, "DoctypePublicIdentifier_doubleQuoted"))), "Data")
               [] OTHER -> publicIdentifierAppend(w, <<c>>))

DoctypePublicIdentifier_singleQuoted ==
    /\ Step("DoctypePublicIdentifier_singleQuoted")
    /\ LET c == current(r)
           w == withR(World, consume(r))
       IN  Commit(
             CASE c = "'" -> transition(w, "AfterDoctypePublicIdentifier")
               [] c = NUL -> publicIdentifierAppend(error(w, "DoctypePublicIdentifier_singleQuoted"), <<FFFD>>)
               [] c = ">" -> transition(emitDoctypePending(forceQuirks(
                                 error(w, "DoctypePublicIdentifier_singleQuoted"))), "Data")
               [] c = EOFChar -> transition(emitDoctypePending(forceQuirks(
                                     eofError(w, "DoctypePublicIdentifier_singleQuoted"))), "Data")
               [] OTHER -> publicIdentifierAppend(w, <<c>>))

AfterDoctypePublicIdentifier ==
    /\ Step("AfterDoctypePublicIdentifier")
    /\ LET c == current(r)
           w == withR(World, consume(r))
       IN  Commit(
             CASE c \in Whitespace -> transition(w, "BetweenDoctypePublicAndSystemIdentifiers")
               [] c = ">" -> transition(emitDoctypePending(w), "Data")
               [] c = "\"" -> transition(error(w, "AfterDoctypePublicIdentifier"),
                                         "DoctypeSystemIdentifier_doubleQuoted")
               [] c = "'" -> transition(error(w, "AfterDoctypePublicIdentifier"),
                                        "DoctypeSystemIdentifier_singleQuoted")
               [] c = EOFChar -> transition(emitDoctypePending(forceQuirks(
                                     eofError(w, "AfterDoctypePublicIdentifier"))), "Data")
               [] OTHER -> transition(forceQuirks(error(w, "AfterDoctypePublicIdentifier")), "BogusDoctype"))

BetweenDoctypePublicAndSystemIdentifiers ==
    /\ Step("BetweenDoctypePublicAndSystemIdentifiers")
    /\ LET c == current(r)
           w == withR(World, consume(r))
       IN  Commit(
             CASE c \in Whitespace -> w
               [] c = ">" -> transition(emitDoctypePending(w), "Data")
               [] c = "\"" -> transition(error(w, "BetweenDoctypePublicAndSystemIdentifiers"),
                                         "DoctypeSystemIdentifier_doubleQuoted")
               [] c = "'" -> transition(error(w, "BetweenDoctypePublicAndSystemIdentifiers"),
                                        "DoctypeSystemIdentifier_singleQuoted")
               [] c = EOFChar -> transition(emitDoctypePending(forceQuirks(
                                     eofError(w, "BetweenDoctypePublicAndSystemIdentifiers"))), "Data")
               [] OTHER -> transition(forceQuirks(error(w, "BetweenDoctypePublicAndSystemIdentifiers")), "BogusDoctype"))

\* the default case emits and stays in AfterDoctypeSystemKeyword
AfterDoctypeSystemKeyword ==
    /\ Step("AfterDoctypeSystemKeyword")
    /\ LET c == current(r)
           w == withR(World, consume(r))
       IN  Commit(
             CASE c \in Whitespace -> transition(w, "BeforeDoctypeSystemIdentifier")
               [] c = "\"" -> transition(error(w, "AfterDoctypeSystemKeyword"), "DoctypeSystemIdentifier_doubleQuoted")
               [] c = "'" -> transition(error(w, "AfterDoctypeSystemKeyword"), "DoctypeSystemIdentifier_singleQuoted")
               [] c = ">" -> transition(emitDoctypePending(forceQuirks(
                                 error(w, "AfterDoctypeSystemKeyword"))), "Data")
               [] c = EOFChar -> transition(emitDoctypePending(forceQuirks(
                                     eofError(w, "AfterDoctypeSystemKeyword"))), "Data")
               [] OTHER -> emitDoctypePending(forceQuirks(error(w, "AfterDoctypeSystemKeyword"))))

BeforeDoctypeSystemIdentifier ==
    /\ Step("BeforeDoctypeSystemIdentifier")
    /\ LET c == current(r)
           w == withR(World, consume(r))
       IN  Commit(
             CASE c \in Whitespace -> w
               [] c = "\"" -> transition(w, "DoctypeSystemIdentifier_doubleQuoted")
               [] c = "'" -> transition(w, "DoctypeSystemIdentifier_singleQuoted")
               [] c = ">" -> transition(emitDoctypePending(forceQuirks(
                                 error(w, "BeforeDoctypeSystemIdentifier"))), "Data")
               [] c = EOFChar -> transition(emitDoctypePending(forceQuirks(
                                     eofError(w, "BeforeDoctypeSystemIdentifier"))), "Data")
               [] OTHER -> transition(forceQuirks(error(w, "BeforeDoctypeSystemIdentifier")), "BogusDoctype"))

DoctypeSystemIdentifier_doubleQuoted ==
    /\ Step("DoctypeSystemIdentifier_doubleQuoted")
    /\ LET c == current(r)
           w == withR(World, consume(r))
       IN  Commit(
             CASE c = "\"" -> transition(w, "AfterDoctypeSystemIdentifier")
               [] c = NUL -> systemIdentifierAppend(error(w, "DoctypeSystemIdentifier_doubleQuoted"), <<FFFD>>)
               [] c = ">" -> transition(emitDoctypePending(forceQuirks(
                                 error(w, "DoctypeSystemIdentifier_doubleQuoted"))), "Data")
               [] c = EOFChar -> transition(emitDoctypePending(forceQuirks(
                                     eofError(w, "DoctypeSystemIdentifier_doubleQuoted"))), "Data")
               [] OTHER -> systemIdentifierAppend(w, <<c>>))

DoctypeSystemIdentifier_singleQuoted ==
    /\ Step("DoctypeSystemIdentifier_singleQuoted")
    /\ LET c == current(r)
           w == withR(World, consume(r))
       IN  Commit(
             CASE c = "'" -> transition(w, "AfterDoctypeSystemIdentifier")
               [] c = NUL -> systemIdentifierAppend(error(w, "DoctypeSystemIdentifier_singleQuoted"), <<FFFD>>)
               [] c = ">" -> transition(emitDoctypePending(forceQuirks(
                                 error(w, "DoctypeSystemIdentifier_singleQuoted"))), "Data")
               [] c = EOFChar -> transition(emitDoctypePending(forceQuirks(
                                     eofError(w, "DoctypeSystemIdentifier_singleQuoted"))), "Data")
               [] OTHER -> systemIdentifierAppend(w, <<c>>))

AfterDoctypeSystemIdentifier ==
    /\ Step("AfterDoctypeSystemIdentifier")
    /\ LET c == current(r)
           w == withR(World, consume(r))
       IN  Commit(
             CASE c \in Whitespace -> w
               [] c = ">" -> transition(emitDoctypePending(w), "Data")
               [] c = EOFChar -> transition(emitDoctypePending(forceQuirks(
                                     eofError(w, "AfterDoctypeSystemIdentifier"))), "Data")
               [] OTHER -> transition(error(w, "AfterDoctypeSystemIdentifier"), "BogusDoctype"))

BogusDoctype ==
    /\ Step("BogusDoctype")
    /\ LET c == current(r)
           w == withR(World, consume(r))
       IN  Commit(
             CASE c = ">" -> transition(emitDoctypePending(w), "Data")
               [] c = EOFChar -> transition(emitDoctypePending(w), "Data")
               [] OTHER -> w)

\* String(TokeniserState.Data), the text an object without toString() gives
ObjectString == "[object Object]"

\* the text read by consumeTo is dropped: what is appended is TokeniserState.Data
CdataSection ==
    /\ Step("CdataSection")
    /\ LET data == consumeTo(r, <<"]", "]", ">">>)
           w1 == dataBufferAppend(withR(World, data.r), <<ObjectString>>)
           w == withR(w1, matchConsume(w1.r, <<"]", "]", ">">>))
       IN  Commit(
             IF matchesIgnoreCase(w1.r, <<"]", "]", ">">>) \/ isEmpty(w.r)
             THEN transition(emitToken(w, [kind |-> "cdata", data |-> w.t.dataBuffer]), "Data")
             ELSE w)

(***************************************************************************)
(* The consumer of the tokens                                              *)
(***************************************************************************)
\* HtmlState.handleRcData: after a start tag the tree builder switches the
\* tokeniser to Rcdata
HandleRcData ==
    /\ pc = "idle"
    /\ Len(returned) > 0
    /\ returned[Len(returned)].type = "StartTag"
    /\ t.state = "Data"
    /\ t' = [t EXCEPT !.state = "Rcdata"]
    /\ UNCHANGED <<r, errors, pc, exception, returned, unescaped, emitLog, emitSnap, call>>

\* Tokeniser.unescapeEntities(inAttribute) on a fresh tokeniser
UnescapeEntities ==
    /\ pc = "idle"
    /\ returned = << >>
    /\ r.bufPos = 0
    /\ LET rc == consumeTo(r, <<"&">>)
       IN  /\ r' = IF matches(rc.r, <<"&">>) THEN consume(rc.r) ELSE rc.r
           /\ IF matches(rc.r, <<"&">>)
              THEN /\ exception' = "Method not implemented."
                   /\ unescaped' = unescaped
              ELSE /\ exception' = exception
                   /\ unescaped' = Some(rc.v)
           /\ pc' = "unescaped"
    /\ UNCHANGED <<t, errors, returned, emitLog, emitSnap, call>>

\* readRawData that emits the NUL itself
readRawData_rawNul(w, current_, advance_) ==
    LET c == current(w.r)
    IN  CASE c = "<" -> advanceTransition(w, advance_)
          [] c = NUL -> emitString(withR(error(w, current_), advance(w.r)), <<NUL>>)
          [] c = EOFChar -> emitToken(w, NewEOF)
          [] OTHER -> LET rc == consumeRawData(w.r)
                      IN  emitString(withR(w, rc.r), rc.v)

readRawData(w, current_, advance_) ==
    LET c == current(w.r)
    IN  CASE c = "<" -> advanceTransition(w, advance_)
          [] c = NUL -> emitString(withR(error(w, current_), advance(w.r)), <<FFFD>>)
          [] c = EOFChar -> emitToken(w, NewEOF)
          [] OTHER -> LET rc == consumeRawData(w.r)
                      IN  emitString(withR(w, rc.r), rc.v)

readEndTag(w, a, b) ==
    IF matchesLetter(w.r)
    THEN transition(createTagPending(w, FALSE), a)
    ELSE transition(emitString(w, <<"<", "/">>), b)

handleDataEndTag(w, elseTransition) ==
    LET exit(x) == transition(emitString(emitString(x, <<"<", "/">>), x.t.dataBuffer),
                              elseTransition)
    IN  IF matchesLetter(w.r)
        THEN LET rc == consumeLetterSequence(w.r)
             IN  dataBufferAppend(appendTagName(withR(w, rc.r), rc.v), rc.v)
        ELSE IF isAppropriateEndTagTokenThrows(w) THEN throw(w, "must be false")
        ELSE IF ~(isAppropriateEndTagToken(w) /\ ~isEmpty(w.r)) THEN exit(w)
        ELSE LET c  == current(w.r)
                 w1 == withR(w, consume(w.r))
             IN  CASE c \in Whitespace -> transition(w1, "BeforeAttributeName")
                   [] c = "/" -> transition(w1, "SelfClosingStartTag")
                   [] c = ">" -> transition(emitTagPending(w1), "Data")
                   [] OTHER -> exit(dataBufferAppend(w1, <<c>>))

Rawtext ==
    /\ Step("Rawtext")
    /\ Commit(readRawData(World, "Rawtext", "RawtextLessthanSign"))

ScriptData ==
    /\ Step("ScriptData")
    /\ Commit(readRawData(World, "ScriptData", "ScriptDataLessthanSign"))

RawtextLessthanSign ==
    /\ Step("RawtextLessthanSign")
    /\ LET w == World
       IN  Commit(
             IF matches(r, <<"/">>)
             THEN advanceTransition(createTempBuffer(w), "RawtextEndTagOpen")
             ELSE transition(emitString(w, <<"<">>), "Rawtext"))

RawtextEndTagOpen ==
    /\ Step("RawtextEndTagOpen")
    /\ Commit(readEndTag(World, "RawtextEndTagName", "Rawtext"))

RawtextEndTagName ==
    /\ Step("RawtextEndTagName")
    /\ Commit(handleDataEndTag(World, "Rawtext"))

ScriptDataLessthanSign ==
    /\ Step("ScriptDataLessthanSign")
    /\ LET c == current(r)
           w == withR(World, consume(r))
       IN  Commit(
             CASE c = "/" -> transition(createTempBuffer(w), "ScriptDataEndTagOpen")
               [] c = "!" -> transition(emitString(w, <<"<", "!">>), "ScriptDataEscapeStart")
               [] c = EOFChar ->
                    transition(eofError(emitString(w, <<"<">>), "ScriptDataLessthanSign"), "Data")
               [] OTHER -> transition(unconsumeW(emitString(w, <<"<">>)), "ScriptData"))

ScriptDataEndTagOpen ==
    /\ Step("ScriptDataEndTagOpen")
    /\ Commit(readEndTag(World, "ScriptDataEndTagName", "ScriptData"))

ScriptDataEndTagName ==
    /\ Step("ScriptDataEndTagName")
    /\ Commit(handleDataEndTag(World, "ScriptData"))

\* HtmlState.handleRawtext: after a start tag the tree builder switches the
\* tokeniser to Rawtext
HandleRawtext ==
    /\ pc = "idle"
    /\ Len(returned) > 0
    /\ returned[Len(returned)].type = "StartTag"
    /\ t.state = "Data"
    /\ t' = [t EXCEPT !.state = "Rawtext"]
    /\ UNCHANGED <<r, errors, pc, exception, returned, unescaped, emitLog, emitSnap, call>>

\* tokeniser.transition(TokeniserState.ScriptData) by the consumer after a
\* start tag
HandleScriptData ==
    /\ pc = "idle"
    /\ Len(returned) > 0
    /\ returned[Len(returned)].type = "StartTag"
    /\ t.state = "Data"
    /\ t' = [t EXCEPT !.state = "ScriptData"]
    /\ UNCHANGED <<r, errors, pc, exception, returned, unescaped, emitLog, emitSnap, call>>

Next ==
    \/ Read \/ ReadReturn
    \/ Data \/ CharacterReferenceInData \/ Rcdata \/ CharacterReferenceInRcdata
    \/ TagOpen \/ EndTagOpen \/ TagName
    \/ RcdataLessthanSign \/ RCDATAEndTagOpen \/ RCDATAEndTagName
    \/ BeforeAttributeName \/ AttributeName \/ AfterAttributeName
    \/ BeforeAttributeValue \/ AttributeValue_doubleQuoted \/ AttributeValue_singleQuoted
    \/ AttributeValue_unquoted \/ AfterAttributeValue_quoted \/ SelfClosingStartTag
    \/ BogusComment \/ MarkupDeclarationOpen
    \/ CommentStart \/ CommentStartDash \/ Comment
    \/ CommentEndDash \/ CommentEnd \/ CommentEndBang
    \/ Rawtext \/ ScriptData
    \/ RawtextLessthanSign \/ RawtextEndTagOpen \/ RawtextEndTagName
    \/ ScriptDataLessthanSign \/ ScriptDataEndTagOpen \/ ScriptDataEndTagName
    \/ HandleRcData \/ HandleRawtext \/ HandleScriptData \/ UnescapeEntities

Spec == Init /\ [][Next]_vars


\* the read() loop and its caller run on: a step that can change the state is taken
FairSpec == Spec /\ WF_vars(Next)

(***************************************************************************)
(* CharacterReader called directly                                         *)
(***************************************************************************)
\* how far past the end of the input the calls below move the cursor
MaxOverrun == 1

ReaderSigma == {"a", "1", "<"}

ReaderInputs ==
    UNION { [1 .. n -> ReaderSigma] : n \in 0 .. MaxLen }

Delimiters == { <<"<">>, <<"<", "a">> }

DelimiterArrays == { <<"<">>, <<"<", "1">> }

Targets == { << >>, <<"a">>, <<"A">>, <<"a", "<">> }

ReaderInit ==
    /\ t = NewTokeniser
    /\ \E input \in ReaderInputs : r = NewCharacterReader(input)
    /\ errors = [list |-> << >>, maxSize |-> 0]
    /\ pc = "idle"
    /\ exception = "none"
    /\ returned = << >>
    /\ unescaped = Null
    /\ emitLog = << >>
    /\ emitSnap = EOFToken
    /\ call = NoCall

\* the record of a call: its argument, the cursor before it and its outcome;
\* marked is the cursor of the caller's last mark() not yet rewound or unmarked
Called(op, arg, v, ret, threw, marked) ==
    [op |-> op, arg |-> arg, pos |-> r.bufPos, v |-> v, ret |-> ret, threw |-> threw,
     marked |-> marked]

Rest == <<t, errors, pc, exception, returned, unescaped, emitLog, emitSnap>>

Consume ==
    /\ r.bufPos < bufLength(r) + MaxOverrun
    /\ r' = consume(r)
    /\ call' = Called("consume", << >>, <<current(r)>>, FALSE, FALSE, call.marked)
    /\ UNCHANGED Rest

Advance ==
    /\ r.bufPos < bufLength(r) + MaxOverrun
    /\ r' = advance(r)
    /\ call' = Called("advance", << >>, << >>, FALSE, FALSE, call.marked)
    /\ UNCHANGED Rest

Unconsume ==
    /\ r' = IF unconsumeThrows(r) THEN r ELSE unconsume(r)
    /\ call' = Called("unconsume", << >>, << >>, FALSE, unconsumeThrows(r), call.marked)
    /\ UNCHANGED Rest

Mark ==
    /\ r' = mark(r)
    /\ call' = Called("mark", << >>, << >>, FALSE, FALSE, r.bufPos)
    /\ UNCHANGED Rest

Unmark ==
    /\ r' = unmark(r)
    /\ call' = Called("unmark", << >>, << >>, FALSE, FALSE, -1)
    /\ UNCHANGED Rest

RewindToMark ==
    /\ r' = IF rewindToMarkThrows(r) THEN r ELSE rewindToMark(r)
    /\ call' = Called("rewindToMark", << >>, << >>, FALSE, rewindToMarkThrows(r), -1)
    /\ UNCHANGED Rest

ConsumeTo ==
    /\ \E seq \in Delimiters :
          /\ r' = consumeTo(r, seq).r
          /\ call' = Called("consumeTo", seq, consumeTo(r, seq).v, FALSE, FALSE,
                            call.marked)
    /\ UNCHANGED Rest

ConsumeToAny ==
    /\ \E chars \in DelimiterArrays :
          /\ r' = consumeToAny(r, Range(chars)).r
          /\ call' = Called("consumeToAny", chars, consumeToAny(r, Range(chars)).v,
                            FALSE, FALSE, call.marked)
    /\ UNCHANGED Rest

ConsumeLetterSequence ==
    /\ r' = consumeLetterSequence(r).r
    /\ call' = Called("consumeLetterSequence", << >>, consumeLetterSequence(r).v,
                      FALSE, FALSE, call.marked)
    /\ UNCHANGED Rest

ConsumeDigitSequence ==
    /\ r' = consumeDigitSequence(r).r
    /\ call' = Called("consumeDigitSequence", << >>, consumeDigitSequence(r).v,
                      FALSE, FALSE, call.marked)
    /\ UNCHANGED Rest

ConsumeHexSequence ==
    /\ r' = consumeHexSequence(r).r
    /\ call' = Called("consumeHexSequence", << >>, consumeHexSequence(r).v,
                      FALSE, FALSE, call.marked)
    /\ UNCHANGED Rest

MatchConsume ==
    /\ \E seq \in Targets :
          /\ r' = matchConsume(r, seq)
          /\ call' = Called("matchConsume", seq, << >>, matchesIgnoreCase(r, seq), FALSE,
                            call.marked)
    /\ UNCHANGED Rest

ReaderNext ==
    \/ Consume
    \/ Unconsume
    \/ Mark
    \/ Unmark
    \/ RewindToMark
    \/ ConsumeTo
    \/ ConsumeToAny
    \/ ConsumeLetterSequence
    \/ ConsumeDigitSequence
    \/ ConsumeHexSequence
    \/ MatchConsume

ReaderSpec == ReaderInit /\ [][ReaderNext]_vars

\* the calls that move the cursor by one
CursorNext == Consume \/ Advance \/ Unconsume

CursorSpec == ReaderInit /\ [][CursorNext]_vars

\* CharacterReader.cacheString called on the buffer and the cache of a reader
CacheString ==
    /\ \E start \in 0 .. bufLength(r) : \E count \in 0 .. (bufLength(r) - start) :
          LET cs == cacheString(r.charBuf, r.stringCache, start, count)
          IN  /\ r' = [r EXCEPT !.stringCache = cs.cache]
              /\ call' = [Called("cacheString", <<start, count>>, cs.v, FALSE, FALSE,
                                 call.marked) EXCEPT !.pos = start]
    /\ UNCHANGED Rest

CacheSpec == ReaderInit /\ [][CacheString]_vars

(***************************************************************************)
(* The pending tags of a Tokeniser, their methods called directly          *)
(***************************************************************************)
\* how many attributes the calls below add to a tag
MaxNewAttributes == 2

\* the attribute list that n attributes without value leave
Filled(n) ==
    [i \in 1 .. n |-> [key |-> <<"b">>, val |-> Some(<<"n", "u", "l", "l">>)]]

AttributeCount(tag) == IF tag.attributes.null THEN 0 ELSE Len(tag.attributes.v)

TagInit ==
    /\ \E n \in {0} \cup ((MaxAttributes - MaxNewAttributes - 1) .. MaxAttributes) :
          t = IF n = 0 THEN NewTokeniser
              ELSE [NewTokeniser EXCEPT
                       !.tagPending = "start",
                       !.startPending = [Tag_reset EXCEPT
                           !.tagName = Some(<<"a">>),
                           !.attributes = [null |-> FALSE, v |-> Filled(n)]]]
    /\ r = NewCharacterReader(<< >>)
    /\ errors = [list |-> << >>, maxSize |-> MaxErrors]
    /\ pc = "idle"
    /\ exception = "none"
    /\ returned = << >>
    /\ unescaped = Null
    /\ emitLog = << >>
    /\ emitSnap = EOFToken
    /\ call = NoCall

TagRest == <<r, pc, returned, unescaped, emitLog, emitSnap>>

\* the record of a call on the pending tag: arg is its argument (for
\* newAttribute the pending attribute name it commits), pos the number of
\* attributes of the pending tag before the call
TagCalled(op, arg) ==
    [NoCall EXCEPT !.op = op, !.arg = arg, !.pos = AttributeCount(pendingTag(World))]

CreateTagPending ==
    /\ \E start \in BOOLEAN :
          \E w \in {createTagPending(World, start)} :
              /\ t' = w.t /\ errors' = w.errors /\ exception' = w.exc
              /\ call' = TagCalled("createTagPending",
                                   IF start THEN <<"true">> ELSE <<"false">>)
    /\ UNCHANGED TagRest

TagAppendTagName ==
    /\ t.tagPending # "none"
    /\ pendingTag(World).tagName.null
    /\ \E w \in {appendTagName(World, <<"a">>)} :
          t' = w.t /\ errors' = w.errors /\ exception' = w.exc
    /\ call' = TagCalled("appendTagName", <<"a">>)
    /\ UNCHANGED TagRest

TagAppendAttributeName ==
    /\ t.tagPending # "none"
    /\ pendingTag(World).pendingAttributeName.null
    /\ \/ AttributeCount(pendingTag(World)) < MaxNewAttributes
       \/ AttributeCount(pendingTag(World)) >= MaxAttributes - MaxNewAttributes - 1
    /\ \E w \in {onTagPending(World, Tag_appendAttributeName(pendingTag(World), <<"b">>))} :
          t' = w.t /\ errors' = w.errors /\ exception' = w.exc
    /\ call' = TagCalled("appendAttributeName", <<"b">>)
    /\ UNCHANGED TagRest

TagSetEmptyAttributeValue ==
    /\ t.tagPending # "none"
    /\ \E w \in {onTagPending(World, Tag_setEmptyAttributeValue(pendingTag(World)))} :
          t' = w.t /\ errors' = w.errors /\ exception' = w.exc
    /\ call' = TagCalled("setEmptyAttributeValue", << >>)
    /\ UNCHANGED TagRest

TagNewAttribute ==
    /\ t.tagPending # "none"
    /\ \E w \in {onTagPending(World, Tag_newAttribute(pendingTag(World)))} :
          t' = w.t /\ errors' = w.errors /\ exception' = w.exc
    /\ call' = TagCalled("newAttribute", pendingTag(World).pendingAttributeName.v)
    /\ UNCHANGED TagRest

TagNext ==
    \/ CreateTagPending
    \/ TagAppendTagName
    \/ TagAppendAttributeName
    \/ TagSetEmptyAttributeValue
    \/ TagNewAttribute

TagSpec == TagInit /\ [][TagNext]_vars

(***************************************************************************)
(* Attributes.put called directly                                          *)
(***************************************************************************)
PutKeys == {<<"a">>, <<"b">>}

PutValues == {<< >>, <<"x">>}

PutAttributes == { [key |-> k, val |-> Some(v)] : k \in PutKeys, v \in PutValues }

\* the attribute lists of up to MaxLen - 1 attributes
PutLists == UNION { [1 .. n -> PutAttributes] : n \in 0 .. (MaxLen - 1) }

\* the attributes are those of the start tag
PutInit ==
    /\ \E list \in PutLists :
          t = [NewTokeniser EXCEPT
                  !.tagPending = "start",
                  !.startPending = [Tag_reset EXCEPT
                      !.tagName = Some(<<"a">>),
                      !.attributes = [null |-> FALSE, v |-> list]]]
    /\ r = NewCharacterReader(<< >>)
    /\ errors = [list |-> << >>, maxSize |-> MaxErrors]
    /\ pc = "idle"
    /\ exception = "none"
    /\ returned = << >>
    /\ unescaped = Null
    /\ emitLog = << >>
    /\ emitSnap = EOFToken
    /\ call = NoCall

\* attributes.put(name, value): arg is <<name, value>>, pos the length of the list
\* before the call
AttributesPut ==
    /\ exception = "none"
    /\ \E name \in PutKeys \cup {<<"c">>} : \E value \in PutValues \cup {<<"y">>} :
          LET put == Attributes_put(t.startPending.attributes.v, name, value)
          IN  /\ t' = [t EXCEPT !.startPending.attributes.v = put.list]
              /\ exception' = put.exc
              /\ call' = [NoCall EXCEPT !.op = "put", !.arg = <<name, value>>,
                                        !.pos = Len(t.startPending.attributes.v),
                                        !.threw = (put.exc # "none")]
    /\ UNCHANGED <<r, errors, pc, returned, unescaped, emitLog, emitSnap>>

PutSpec == PutInit /\ [][AttributesPut]_vars

(***************************************************************************)
(* The tokeniser in CdataSection                                           *)
(***************************************************************************)
CdataOpen == <<"<", "!", "[", "C", "D", "A", "T", "A", "[">>

CdataSigma == {"a", "]", ">"}

CdataTexts ==
    UNION { [1 .. n -> CdataSigma] : n \in 0 .. MaxLen }
      \cup { <<"a", "]", "]", ">", "a">>, <<"a", "a", "]", "]", ">", "]", "]", ">">> }

\* read() has run Data, TagOpen and the third branch of MarkupDeclarationOpen:
\* the opener is consumed, the temp buffer is new and the state is CdataSection
CdataInit ==
    /\ t = [NewTokeniser EXCEPT !.state = "CdataSection"]
    /\ \E text \in CdataTexts :
          r = [NewCharacterReader(CdataOpen \o text) EXCEPT !.bufPos = Len(CdataOpen)]
    /\ \E maxSize \in {0, MaxErrors} : errors = [list |-> << >>, maxSize |-> maxSize]
    /\ pc = "reading"
    /\ exception = "none"
    /\ returned = << >>
    /\ unescaped = Null
    /\ emitLog = << >>
    /\ emitSnap = EOFToken
    /\ call = NoCall

CdataNext == Read \/ ReadReturn \/ CdataSection \/ Data

CdataSpec == CdataInit /\ [][CdataNext]_vars

(***************************************************************************)
(* The tokeniser in Doctype                                                *)
(***************************************************************************)
DoctypeOpen == <<"<", "!", "D", "O", "C", "T", "Y", "P", "E">>

DoctypeSigma == {" ", "a", ">", "\""}

DoctypePublic == <<" ", "a", " ", "S", "Y", "S", "T", "E", "M", " ", "\"", "b", "\"", " ",
                   "'", "c", "'", " ", ">">>

DoctypeSystem == <<" ", "a", " ", "P", "U", "B", "L", "I", "C", " ", "'", "b", "'", "\"",
                   "c", "\"", ">">>

DoctypeQuotes == <<" ", "a", " ", "S", "Y", "S", "T", "E", "M", "'", "b", "'", "\"", "c",
                   "\"", ">">>

DoctypeSystemStray == <<" ", "a", " ", "P", "U", "B", "L", "I", "C", "a", "a">>

\* every short text, and the long ones cut off at every length
DoctypeTexts ==
    UNION { [1 .. n -> DoctypeSigma] : n \in 0 .. MaxLen }
      \cup UNION { { SubSeq(text, 1, n) : n \in 0 .. Len(text) } :
                     text \in { DoctypePublic, DoctypeSystem, DoctypeQuotes,
                                DoctypeSystemStray } }

\* the keyword is consumed and the state is Doctype, as the second branch of
\* MarkupDeclarationOpen leaves them
DoctypeInit ==
    /\ t = [NewTokeniser EXCEPT !.state = "Doctype"]
    /\ \E text \in DoctypeTexts :
          r = [NewCharacterReader(DoctypeOpen \o text) EXCEPT !.bufPos = Len(DoctypeOpen)]
    /\ \E maxSize \in {0, MaxErrors} : errors = [list |-> << >>, maxSize |-> maxSize]
    /\ pc = "reading"
    /\ exception = "none"
    /\ returned = << >>
    /\ unescaped = Null
    /\ emitLog = << >>
    /\ emitSnap = EOFToken
    /\ call = NoCall

DoctypeNext ==
    \/ Read \/ ReadReturn \/ Data
    \/ Doctype \/ BeforeDoctypeName \/ DoctypeName \/ AfterDoctypeName
    \/ AfterDoctypePublicKeyword \/ BeforeDoctypePublicIdentifier
    \/ DoctypePublicIdentifier_doubleQuoted \/ DoctypePublicIdentifier_singleQuoted
    \/ AfterDoctypePublicIdentifier \/ BetweenDoctypePublicAndSystemIdentifiers
    \/ AfterDoctypeSystemKeyword \/ BeforeDoctypeSystemIdentifier
    \/ DoctypeSystemIdentifier_doubleQuoted \/ DoctypeSystemIdentifier_singleQuoted
    \/ AfterDoctypeSystemIdentifier \/ BogusDoctype

DoctypeSpec == DoctypeInit /\ [][DoctypeNext]_vars

(***************************************************************************)
(* The tokeniser in every state: from construction, in Doctype, in         *)
(* CdataSection                                                            *)
(***************************************************************************)
TokeniserInit == Init \/ DoctypeInit \/ CdataInit

TokeniserNext == Next \/ DoctypeNext \/ CdataNext

TokeniserSpec == TokeniserInit /\ [][TokeniserNext]_vars

(***************************************************************************)
(* The error methods called directly, and a second run on the same input   *)
(***************************************************************************)
ErrorCaps == {0, 1, MaxErrors}

ErrorInit ==
    /\ t = NewTokeniser
    /\ \E input \in Inputs : r = NewCharacterReader(input)
    /\ \E maxSize \in ErrorCaps : errors = [list |-> << >>, maxSize |-> maxSize]
    /\ pc = "idle"
    /\ exception = "none"
    /\ returned = << >>
    /\ unescaped = Null
    /\ emitLog = << >>
    /\ emitSnap = EOFToken
    /\ call = NoCall

\* pos is the length of the error list before the call
ErrorCalled(op, arg) ==
    [NoCall EXCEPT !.op = op, !.arg = arg, !.pos = Len(errors.list)]

\* Tokeniser.error(state) called between two reads
CallError ==
    /\ pc = "idle"
    /\ call.op = "none"
    /\ \E w \in {error(World, t.state)} :
          /\ t' = w.t /\ r' = w.r /\ errors' = w.errors /\ exception' = w.exc
          /\ emitLog' = w.log /\ emitSnap' = w.snap
    /\ call' = ErrorCalled("error", <<t.state>>)
    /\ UNCHANGED <<pc, returned, unescaped>>

\* Tokeniser.eofError(state) called between two reads
CallEofError ==
    /\ pc = "idle"
    /\ call.op = "none"
    /\ \E w \in {eofError(World, t.state)} :
          /\ t' = w.t /\ r' = w.r /\ errors' = w.errors /\ exception' = w.exc
          /\ emitLog' = w.log /\ emitSnap' = w.snap
    /\ call' = ErrorCalled("eofError", <<t.state>>)
    /\ UNCHANGED <<pc, returned, unescaped>>

\* Tokeniser.characterReferenceError(message) called between two reads
CallCharacterReferenceError ==
    /\ pc = "idle"
    /\ call.op = "none"
    /\ \E w \in {characterReferenceError(World, "missing semicolon")} :
          /\ t' = w.t /\ r' = w.r /\ errors' = w.errors /\ exception' = w.exc
          /\ emitLog' = w.log /\ emitSnap' = w.snap
    /\ call' = ErrorCalled("characterReferenceError", <<"missing semicolon">>)
    /\ UNCHANGED <<pc, returned, unescaped>>

\* a new Tokeniser on a new CharacterReader of the same input, with an error list of
\* another cap; v keeps the tokens the first one returned, threw whether it threw and
\* pos the cap it had
ReadAgain ==
    /\ pc \in {"idle", "thrown"}
    /\ call.op = "none"
    /\ Len(returned) > 0
    /\ t' = NewTokeniser
    /\ r' = NewCharacterReader(r.charBuf)
    /\ \E maxSize \in ErrorCaps \ {errors.maxSize} :
          errors' = [list |-> << >>, maxSize |-> maxSize]
    /\ pc' = "idle"
    /\ exception' = "none"
    /\ returned' = << >>
    /\ emitLog' = << >>
    /\ emitSnap' = EOFToken
    /\ call' = [NoCall EXCEPT !.op = "again", !.v = returned, !.threw = (pc = "thrown"),
                              !.pos = errors.maxSize]
    /\ UNCHANGED unescaped

ErrorNext ==
    \/ Read \/ ReadReturn
    \/ Data \/ CharacterReferenceInData
    \/ TagOpen \/ EndTagOpen \/ TagName
    \/ BeforeAttributeName \/ AttributeName \/ AfterAttributeName
    \/ BeforeAttributeValue \/ AttributeValue_doubleQuoted \/ AttributeValue_singleQuoted
    \/ AttributeValue_unquoted \/ AfterAttributeValue_quoted \/ SelfClosingStartTag
    \/ BogusComment \/ MarkupDeclarationOpen
    \/ CommentStart \/ CommentStartDash \/ Comment
    \/ CommentEndDash \/ CommentEnd \/ CommentEndBang
    \/ CallError \/ CallEofError \/ CallCharacterReferenceError
    \/ ReadAgain

ErrorSpec == ErrorInit /\ [][ErrorNext]_vars

(***************************************************************************)
(* Properties                                                              *)
(***************************************************************************)
AttrList(tok) == IF tok.attributes.null THEN << >> ELSE tok.attributes.v

SameToken(a, b) ==
    /\ a.type = b.type
    /\ a.tagName = b.tagName
    /\ AttrList(a) = AttrList(b)
    /\ a.data = b.data

IsPrefixOf(got, expected) ==
    /\ Len(got) <= Len(expected)
    /\ \A i \in 1 .. Len(got) : SameToken(got[i], expected[i])

StartTagOf(name, attrs) ==
    Token("StartTag", Some(name), [null |-> FALSE, v |-> attrs], FALSE, << >>, FALSE)

EndTagOf(name) == Token("EndTag", Some(name), NullList, FALSE, << >>, FALSE)

CommentOf(data) == Token("Comment", Null, NullList, FALSE, data, FALSE)

Attr(key, val) == [key |-> key, val |-> val]

CharsPending == Len(t.charsBuilder) # 0 \/ ~t.charsString.null

\* C1: every call of read() returns after finitely many passes of its loop
C1_Termination == (pc = "reading") ~> (pc = "idle")

\* C2: once read() has returned an EOF token no later read() returns another
\* token, so an EOF token is always the last token returned
C2_EOFOnce ==
    \A i \in 1 .. Len(returned) : returned[i].type = "EOF" => i = Len(returned)

\* C3: no exception leaves read(), whatever the input
C3_NoException == pc # "thrown"

\* C4: the strings emitted since the last returned token come back from read()
\* as one Character token holding their concatenation in emission order, while
\* the token emitted after them stays pending; that token is what the next
\* read() returns, as it was when it was emitted
C4_Coalescing ==
    [][(pc = "reading" /\ pc' = "idle") =>
          IF CharsPending
          THEN /\ returned' = Append(returned, CharacterToken(emitLog))
               /\ t'.isEmitPending
               /\ tokenOf(t', t'.emitPending) = emitSnap
          ELSE /\ emitLog = << >>
               /\ returned' = Append(returned, emitSnap)]_vars

\* C4 happens: two strings were emitted and came back as one Character token,
\* followed by the token emitted after them
C4_Witness ==
    /\ r.charBuf = <<"<", "<">>
    /\ returned = <<CharacterToken(<<"<", "<">>), EOFToken>>

\* C5: every pass of the loop of read() advances the cursor, changes the
\* active state, or emits something
C5_Progress ==
    [][(pc = "reading" /\ pc' = "reading") =>
          \/ r'.bufPos # r.bufPos
          \/ t'.state # t.state
          \/ t'.isEmitPending
          \/ emitLog' # emitLog]_vars

Expected6 ==
    << StartTagOf(<<"p">>, <<Attr(<<"c","l","a","s","s">>, Some(<<"a">>))>>),
       CharacterToken(<<"H","i"," ","&"," ","b","y","e">>),
       EndTagOf(<<"p">>),
       EOFToken >>

\* C6: the well-formed input is read without an exception as StartTag(p,
\* {class: "a"}), Character("Hi & bye"), EndTag(p), EOF
C6_WellFormed ==
    r.charBuf = InputWellFormed =>
        /\ pc # "thrown"
        /\ IsPrefixOf(returned, Expected6)

\* C7: a "&" that starts no character reference raises no exception and comes
\* out as a literal "&" followed by the unchanged rest of the text, from read()
\* and from unescapeEntities()
C7_ReferenceFallback ==
    r.charBuf = InputNoEntity =>
        /\ pc # "thrown"
        /\ exception = "none"
        /\ IsPrefixOf(returned, <<CharacterToken(InputNoEntity), EOFToken>>)
        /\ pc = "unescaped" => unescaped = Some(InputNoEntity)

\* C8: after StartTag(title) no start tag is returned for "<b>"; the next
\* tokens are Character("a<b>c") and EndTag(title), and the state is then Data
C8_RcdataLookahead ==
    r.charBuf = InputTitle =>
        /\ \A i \in 2 .. Len(returned) : returned[i].type # "StartTag"
        /\ Len(returned) >= 2 =>
              returned[2] = CharacterToken(<<"a","<","b",">","c">>)
        /\ Len(returned) >= 3 =>
              /\ SameToken(returned[3], EndTagOf(<<"t","i","t","l","e">>))
              /\ (Len(returned) = 3 /\ pc = "idle") => t.state = "Data"

\* C9: the unterminated comment is read without an exception and without a
\* pass of the Comment state that leaves the cursor in place, as
\* Comment(" abc") and EOF, with an EOF error recorded once the comment is out
C9_UnterminatedComment ==
    [][r.charBuf = InputOpenComment =>
          /\ pc' # "thrown"
          /\ (pc = "reading" /\ t.state = "Comment" /\ t'.state = "Comment")
                => r'.bufPos > r.bufPos
          /\ IsPrefixOf(returned',
                 <<CommentOf(<<" ","a","b","c">>), EOFToken>>)
          /\ (returned' # << >> /\ errors'.maxSize > 0) =>
                \E i \in 1 .. Len(errors'.list) : errors'.list[i].kind = "eof"]_vars

ExpectedHref == <<StartTagOf(<<"a">>, <<Attr(<<"h","r","e","f">>, Some(<<"f","o","o">>))>>), EOFToken>>

\* C10: the three spellings of href=foo give one attribute href with the
\* value "foo", "disabled" gets the value null and href="" the empty string
C10_AttributeValues ==
    /\ pc # "thrown" \/ r.charBuf \notin {InputHrefUnquoted, InputHrefSingle,
                                          InputHrefDouble, InputDisabled, InputHrefEmpty}
    /\ r.charBuf \in {InputHrefUnquoted, InputHrefSingle, InputHrefDouble} =>
          IsPrefixOf(returned, ExpectedHref)
    /\ r.charBuf = InputDisabled =>
          IsPrefixOf(returned, <<StartTagOf(<<"a">>,
              <<Attr(<<"d","i","s","a","b","l","e","d">>, Null)>>), EOFToken>>)
    /\ r.charBuf = InputHrefEmpty =>
          IsPrefixOf(returned, <<StartTagOf(<<"a">>,
              <<Attr(<<"h","r","e","f">>, Some(<< >>))>>), EOFToken>>)

InputNulText == <<"a", NUL, "a">>

\* a pass of the loop of read() is about to run the handler of this state
InState(state) == pc = "reading" /\ ~t.isEmitPending /\ t.state = state

\* the string the step appended to the emitted character data
Emitted == SubSeq(emitLog', Len(emitLog) + 1, Len(emitLog'))

\* C11: on NUL the Data state records an error, emits the NUL itself, advances
\* the cursor by one and stays in Data; the text "a NUL a" is returned by
\* read() as one Character token holding the NUL between the letters
C11_NulInData ==
    /\ [][(InState("Data") /\ current(r) = NUL) =>
             /\ pc' = "reading"
             /\ r'.bufPos = r.bufPos + 1
             /\ t'.state = "Data"
             /\ emitLog' = emitLog \o <<NUL>>
             /\ ParseErrorList_canAddError(errors) =>
                   Len(errors'.list) = Len(errors.list) + 1]_vars
    /\ (r.charBuf = InputNulText) ~>
          (Len(returned) > 0 /\ returned[1] = CharacterToken(InputNulText))

\* C12: the name of a returned StartTag or EndTag holds no NUL
C12_TagNameNoNul ==
    \A i \in 1 .. Len(returned) :
        returned[i].type \in {"StartTag", "EndTag"} =>
            NUL \notin Range(returned[i].tagName.v)

RawStates == {"Rcdata", "Rawtext", "ScriptData"}

C14_CursorInRange == r.bufPos >= 0 /\ r.bufPos <= bufLength(r)

\* the input from a cursor to the end
Remaining(p) ==
    IF p >= bufLength(r) THEN << >> ELSE SubSeq(r.charBuf, p + 1, bufLength(r))

StartsWith(s, prefix) ==
    Len(prefix) <= Len(s) /\ SubSeq(s, 1, Len(prefix)) = prefix

\* the 0-based positions at or after p where seq occurs in the input
Occurrences(p, seq) ==
    { i \in p .. (bufLength(r) - 1) : StartsWith(Remaining(i), seq) }

\* the result the calls that read up to a stop position owe: the characters
\* from the cursor before the call up to the stop, and the cursor on the stop
ReadUpTo(stop) ==
    /\ call.v = SubSeq(r.charBuf, call.pos + 1, stop)
    /\ r.bufPos = stop

\* the 0-based position of the first character at or after p that is not in
\* the class, or the length of the input
EndOfPrefix(p, class) ==
    LET stops == { i \in p .. (bufLength(r) - 1) : r.charBuf[i + 1] \notin class }
    IN  IF stops = {} THEN Max2(p, bufLength(r)) ELSE Min(stops)

\* C15: unconsume() at cursor 0 fails and leaves the cursor at 0, at a cursor
\* p > 0 it sets the cursor to p - 1; unconsume() right after a consume() that
\* was not at end of input puts the cursor back where it was before the
\* consume()
C15_Unconsume ==
    /\ [](call.op = "unconsume" =>
             IF call.pos = 0
             THEN call.threw /\ r.bufPos = 0
             ELSE ~call.threw /\ r.bufPos = call.pos - 1)
    /\ [][(call.op = "consume" /\ call.v # <<EOFChar>> /\ call'.op = "unconsume") =>
             (~call'.threw /\ r'.bufPos = call.pos)]_vars

\* C15 happens: unconsume() has moved the cursor back from 2 to 1
C15_Witness ==
    /\ call.op = "unconsume"
    /\ call.pos = 2
    /\ r.bufPos = 1
    /\ ~call.threw

\* C16: rewindToMark() after mark() at cursor p and any calls that consume
\* sets the cursor back to p and clears the mark; rewindToMark() with no mark
\* set fails
C16_MarkRewind ==
    [][call'.op = "rewindToMark" =>
          IF call.marked # -1
          THEN ~call'.threw /\ r'.bufPos = call.marked
          ELSE call'.threw /\ r'.bufPos = r.bufPos]_vars

\* C17: consumeTo(delimiter) returns the characters from the cursor up to the
\* first occurrence of the delimiter and leaves the cursor on it; when the
\* delimiter does not occur it returns all the remaining input and leaves the
\* cursor at the length of the input
C17_ConsumeTo ==
    call.op = "consumeTo" =>
        IF Occurrences(call.pos, call.arg) # {}
        THEN ReadUpTo(Min(Occurrences(call.pos, call.arg)))
        ELSE call.v = Remaining(call.pos) /\ r.bufPos = bufLength(r)

\* C18: consumeToAny(delimiters) returns the characters from the cursor up to
\* the first character that is one of the delimiters and leaves the cursor on
\* it; when there is none it returns everything to the end and leaves the
\* cursor at the length of the input
C18_ConsumeToAny ==
    call.op = "consumeToAny" =>
        LET hits == UNION { Occurrences(call.pos, <<c>>) : c \in Range(call.arg) }
        IN  IF hits # {}
            THEN ReadUpTo(Min(hits))
            ELSE call.v = Remaining(call.pos) /\ r.bufPos = bufLength(r)

\* C19: consumeLetterSequence, consumeDigitSequence and consumeHexSequence
\* return the longest prefix of the remaining input made of ASCII letters,
\* digits or hex digits and advance the cursor by its length, also when the
\* prefix runs to the end of the input
C19_Sequences ==
    /\ call.op = "consumeLetterSequence" =>
          ReadUpTo(EndOfPrefix(call.pos, LowerSet \cup UpperSet))
    /\ call.op = "consumeDigitSequence" =>
          ReadUpTo(EndOfPrefix(call.pos, {"0", "1", "2", "3", "4", "5", "6", "7", "8", "9"}))
    /\ call.op = "consumeHexSequence" =>
          ReadUpTo(EndOfPrefix(call.pos,
                     {"0", "1", "2", "3", "4", "5", "6", "7", "8", "9",
                      "a", "b", "c", "d", "e", "f", "A", "B", "C", "D", "E", "F"}))

\* C20: matchConsume(target) returns true exactly when the remaining input
\* starts with target, compared case-sensitively, and then the cursor has
\* advanced by the length of target; otherwise it returns false and the cursor
\* is where it was
C20_MatchConsume ==
    call.op = "matchConsume" =>
        /\ call.ret = StartsWith(Remaining(call.pos), call.arg)
        /\ r.bufPos = IF call.ret THEN call.pos + Len(call.arg) ELSE call.pos

\* C21: cacheString(charBuf, cache, start, count) returns the characters
\* charBuf[start .. start+count-1], whatever the cache holds
C21_CacheTransparency ==
    call.op = "cacheString" =>
        call.v = SubSeq(r.charBuf, call.arg[1] + 1, call.arg[1] + call.arg[2])

\* C22: a pending tag never holds more than MaxAttributes attributes; a
\* newAttribute() on a tag that holds MaxAttributes attributes leaves the list
\* as it is, records no error and raises nothing
C22_AttributeCap ==
    /\ [](/\ AttributeCount(t.startPending) <= MaxAttributes
          /\ AttributeCount(t.endPending) <= MaxAttributes)
    /\ [][(call'.op = "newAttribute" /\ AttributeCount(pendingTag(World)) = MaxAttributes) =>
             /\ t'.startPending.attributes = t.startPending.attributes
             /\ t'.endPending.attributes = t.endPending.attributes
             /\ errors' = errors
             /\ exception' = "none"]_vars

\* C22 happens: newAttribute() was called with a pending name on a tag that
\* held MaxAttributes attributes
C22_Witness ==
    /\ call.op = "newAttribute"
    /\ call.arg = <<"b">>
    /\ call.pos = MaxAttributes
    /\ AttributeCount(t.startPending) = MaxAttributes
    /\ t.startPending.pendingAttributeName.null

\* the keys of the attributes of a token, in list order
Keys(tok) == [i \in 1 .. Len(AttrList(tok)) |-> AttrList(tok)[i].key]

\* C23: a key written twice in a tag is twice in the attribute list of the
\* returned tag, in source order, and a lookup by key gives the first
\* occurrence: for the input <ab c c> the first token returned is a StartTag
\* whose keys are c, c, where indexOfKey("c") is 0 and get("c") is the first
C23_DuplicateKeys ==
    (r.charBuf = InputDupAttr /\ Len(returned) > 0) =>
        /\ returned[1].type = "StartTag"
        /\ Keys(returned[1]) = << <<"c">>, <<"c">> >>
        /\ Attributes_indexOfKey(AttrList(returned[1]), <<"c">>) = 0
        /\ Attributes_get(AttrList(returned[1]), <<"c">>) =
               [null |-> FALSE, v |-> AttrList(returned[1])[1]]

ErrorCalls == {"error", "eofError", "characterReferenceError"}

Shorter(a, b) == IF Len(a) < Len(b) THEN Len(a) ELSE Len(b)

\* C24: error(), eofError() and characterReferenceError() never throw and change
\* nothing but the error list, to which they append one entry, or nothing once the
\* list has reached its cap; and a second tokeniser on the same input whose error
\* list has another cap returns the same tokens and throws where the first threw
C24_ErrorsAreDiagnostics ==
    /\ [][(call.op = "none" /\ call'.op \in ErrorCalls) =>
            /\ exception' = "none"
            /\ <<t, r, pc, exception, returned, unescaped, emitLog, emitSnap>>' =
                  <<t, r, pc, exception, returned, unescaped, emitLog, emitSnap>>
            /\ errors'.maxSize = errors.maxSize
            /\ IF Len(errors.list) < errors.maxSize
               THEN /\ Len(errors'.list) = Len(errors.list) + 1
                    /\ SubSeq(errors'.list, 1, Len(errors.list)) = errors.list
               ELSE errors'.list = errors.list]_vars
    /\ [](call.op = "again" =>
            /\ SubSeq(returned, 1, Shorter(returned, call.v)) =
                  SubSeq(call.v, 1, Shorter(returned, call.v))
            /\ call.threw => Len(returned) <= Len(call.v)
            /\ pc = "thrown" => Len(returned) >= Len(call.v))

\* error() was called on a list of cap 1 that held one error, after a token was returned
C24_Witness ==
    /\ call.op = "error"
    /\ call.pos = 1
    /\ errors.maxSize = 1
    /\ Len(errors.list) = 1
    /\ Len(returned) > 0

\* the second tokeniser records errors the first, of cap 0, did not, and has returned
\* as many tokens, the last one EOF
C24_SecondRun ==
    /\ call.op = "again"
    /\ call.pos = 0
    /\ Len(errors.list) > 0
    /\ Len(returned) = Len(call.v)
    /\ returned[Len(returned)].type = "EOF"
    /\ Len(returned) > 1

\* the text of a CDATA section: what follows the opener up to the first ]]>, or
\* up to the end of the input
CdataText ==
    LET ends == Occurrences(Len(CdataOpen), <<"]", "]", ">">>)
    IN  SubSeq(r.charBuf, Len(CdataOpen) + 1,
               IF ends = {} THEN bufLength(r) ELSE Min(ends))

CdataEnd ==
    LET ends == Occurrences(Len(CdataOpen), <<"]", "]", ">">>)
    IN  IF ends = {} THEN bufLength(r) ELSE Min(ends) + 3

\* C25: the first token returned from CdataSection is a CData token whose data is
\* the text up to the first ]]> (or the end of the input), verbatim, and on its
\* return the cursor is just past the ]]> (or at the end) and the state is Data
C25_CdataSection ==
    (StartsWith(r.charBuf, CdataOpen) /\ Len(returned) > 0) =>
        /\ returned[1] = tokenOf(t, [kind |-> "cdata", data |-> CdataText])
        /\ (Len(returned) = 1 /\ pc = "idle") => (r.bufPos = CdataEnd /\ t.state = "Data")

\* C26: MarkupDeclarationOpen takes exactly one of four ways, tried in this order:
\* on -- it consumes it, makes a new comment and goes to CommentStart; on DOCTYPE in
\* any letter case it consumes it and goes to Doctype; on [CDATA[ it consumes it and
\* goes to CdataSection; otherwise it records a parse error and goes to BogusComment
C26_MarkupDeclarationOpen ==
    [][Step("MarkupDeclarationOpen") =>
         LET rest == Remaining(r.bufPos)
         IN  IF StartsWith(rest, <<"-", "-">>)
             THEN /\ t'.state = "CommentStart"
                  /\ r'.bufPos = r.bufPos + 2
                  /\ t'.commentPending = Comment_reset
                  /\ errors' = errors
             ELSE IF StartsWith(toLowerCase(rest), <<"d", "o", "c", "t", "y", "p", "e">>)
             THEN /\ t'.state = "Doctype"
                  /\ r'.bufPos = r.bufPos + 7
                  /\ errors' = errors
             ELSE IF StartsWith(rest, <<"[", "C", "D", "A", "T", "A", "[">>)
             THEN /\ t'.state = "CdataSection"
                  /\ r'.bufPos = r.bufPos + 7
                  /\ errors' = errors
             ELSE /\ t'.state = "BogusComment"
                  /\ errors' = error(World, "MarkupDeclarationOpen").errors]_vars

\* C27: in TagOpen, when the current character is none of ! / ? and is not a letter
\* (end of input included), a parse error is recorded at the cursor, < is emitted as
\* character data, the state becomes Data, the cursor stays where it is and no
\* pending tag is created or changed; nothing is thrown
C27_TagOpenFallback ==
    [][(Step("TagOpen") /\ current(r) \notin {"!", "/", "?"} /\ ~isLetter(current(r))) =>
         /\ errors'.list =
               IF Len(errors.list) < errors.maxSize
               THEN Append(errors.list, [pos |-> r.bufPos, kind |-> "char", state |-> "TagOpen"])
               ELSE errors.list
         /\ emitLog' = emitLog \o <<"<">>
         /\ ~t'.charsString.null
         /\ t'.state = "Data"
         /\ r' = r
         /\ t'.tagPending = t.tagPending
         /\ t'.startPending = t.startPending
         /\ t'.endPending = t.endPending
         /\ ~t'.isEmitPending
         /\ pc' = "reading"]_vars

\* TagOpen has just fallen back on a second <: the error is recorded at the cursor,
\* which still stands on that character, and < is the last text emitted
C27_Witness ==
    /\ pc = "reading"
    /\ t.state = "Data"
    /\ t.tagPending = "none"
    /\ current(r) = "<"
    /\ Len(errors.list) > 0
    /\ errors.list[Len(errors.list)] = [pos |-> r.bufPos, kind |-> "char", state |-> "TagOpen"]
    /\ emitLog = <<"<">>

\* < or </ followed by one or more letters and nothing else
EndsInTagName(input) ==
    /\ Len(input) >= 2
    /\ input[1] = "<"
    /\ LET from == IF input[2] = "/" THEN 3 ELSE 2
       IN  /\ Len(input) >= from
           /\ \A i \in from .. Len(input) : isLetter(input[i])

\* C28: when TagName finds the end of the input, an EOF parse error is recorded,
\* the state becomes Data and the pending tag is not emitted; and for an input that
\* ends inside a tag name the first token returned is EOF and no StartTag or EndTag
\* is ever returned
C28_EofInTagName ==
    /\ [][(Step("TagName") /\ isEmpty(r)) =>
            /\ IF Len(errors.list) < errors.maxSize
               THEN /\ Len(errors'.list) = Len(errors.list) + 1
                    /\ SubSeq(errors'.list, 1, Len(errors.list)) = errors.list
                    /\ errors'.list[Len(errors'.list)].kind = "eof"
                    /\ errors'.list[Len(errors'.list)].state = "TagName"
               ELSE errors'.list = errors.list
            /\ t'.state = "Data"
            /\ ~t'.isEmitPending
            /\ returned' = returned
            /\ pc' = "reading"]_vars
    /\ [](EndsInTagName(r.charBuf) =>
            \A i \in 1 .. Len(returned) : returned[i] = EOFToken)

\* the input <aa has been read to its end: the EOF error of TagName is recorded
\* and the one token returned is EOF
C28_Witness ==
    /\ r.charBuf = <<"<", "a", "a">>
    /\ pc = "idle"
    /\ returned = <<EOFToken>>
    /\ Len(errors.list) > 0
    /\ errors.list[Len(errors.list)].kind = "eof"
    /\ errors.list[Len(errors.list)].state = "TagName"

\* the tokens emitted so far: those returned and the one waiting to be returned
EmittedTokens ==
    returned \o (IF t.isEmitPending THEN <<tokenOf(t, t.emitPending)>> ELSE << >>)

\* the name of the last StartTag among the tokens, unset when there is none
LastStartTagOf(tokens) ==
    LET starts == { i \in 1 .. Len(tokens) : tokens[i].type = "StartTag" }
    IN  IF starts = {} THEN Null
        ELSE tokens[CHOOSE i \in starts : \A j \in starts : j <= i].tagName

\* the pending tag's name equals lastStartTag, ignoring letter case
AppropriateEndTag ==
    /\ ~t.lastStartTag.null
    /\ t.tagPending # "none"
    /\ ~pendingTag(World).tagName.null
    /\ toLowerCase(pendingTag(World).tagName.v) = toLowerCase(t.lastStartTag.v)

\* an end tag name state is about to call isAppropriateEndTagToken()
AsksAppropriateEndTag ==
    /\ ~matchesLetter(r)
    /\ \/ Step("RCDATAEndTagName") /\ current(r) \in Whitespace \cup {"/", ">"}
       \/ Step("RawtextEndTagName")
       \/ Step("ScriptDataEndTagName")

\* lastStartTag is the name of the StartTag emitted last (unset before the first)
\* and only emitting a StartTag changes it
C29_LastStartTagKept ==
    /\ [](pc # "thrown" => t.lastStartTag = LastStartTagOf(EmittedTokens))
    /\ [][t'.lastStartTag # t.lastStartTag =>
            /\ ~t.isEmitPending /\ t'.isEmitPending
            /\ emitSnap'.type = "StartTag"
            /\ t'.lastStartTag = emitSnap'.tagName]_vars

\* C29: lastStartTag is the name of the StartTag emitted last (unset before the
\* first) and only emitting a StartTag changes it; and isAppropriateEndTagToken()
\* answers, true exactly when lastStartTag is set and the pending end tag's name
\* equals it ignoring letter case: when it is not so, the end tag name state that
\* asked goes back to its text state
C29_LastStartTag ==
    /\ C29_LastStartTagKept
    /\ [][AsksAppropriateEndTag =>
            /\ pc' = "reading"
            /\ ~AppropriateEndTag => t'.state \in {"Rcdata", "Rawtext", "ScriptData"}]_vars

\* a tag with no name, no attribute list, selfClosing false and no pending
\* attribute name or value
BlankTag(tag) ==
    /\ tag.tagName.null
    /\ tag.attributes.null
    /\ ~tag.selfClosing
    /\ tag.pendingAttributeName.null
    /\ tag.pendingAttributeValueS.null
    /\ tag.pendingAttributeValue = << >>
    /\ ~tag.hasEmptyAttributeValue
    /\ ~tag.hasPendingAttributeValue

\* C30: createTagPending(true) makes the start tag buffer the pending tag and
\* leaves the end tag buffer as it was, createTagPending(false) does the reverse;
\* right after the call the pending tag is blank; the call throws nothing
C30_SeparateBuffers ==
    [][call'.op = "createTagPending" =>
         /\ exception' = "none"
         /\ IF call'.arg = <<"true">>
            THEN /\ t'.tagPending = "start"
                 /\ BlankTag(t'.startPending)
                 /\ t'.endPending = t.endPending
            ELSE /\ t'.tagPending = "end"
                 /\ BlankTag(t'.endPending)
                 /\ t'.startPending = t.startPending]_vars

\* createTagPending(false) was called while the start tag buffer, until then the
\* pending tag, held attributes: they are still there and the end tag has none
C30_Witness ==
    /\ call.op = "createTagPending"
    /\ call.arg = <<"false">>
    /\ call.pos > 0
    /\ t.tagPending = "end"
    /\ BlankTag(t.endPending)
    /\ AttributeCount(t.startPending) = call.pos

\* the states of a doctype declaration in which the end of the input emits the token
DoctypeEofStates ==
    {"Doctype", "BeforeDoctypeName", "DoctypeName", "AfterDoctypeName",
     "AfterDoctypePublicKeyword", "BeforeDoctypePublicIdentifier",
     "DoctypePublicIdentifier_doubleQuoted", "DoctypePublicIdentifier_singleQuoted",
     "AfterDoctypePublicIdentifier", "BetweenDoctypePublicAndSystemIdentifiers",
     "AfterDoctypeSystemKeyword", "BeforeDoctypeSystemIdentifier",
     "DoctypeSystemIdentifier_doubleQuoted", "DoctypeSystemIdentifier_singleQuoted",
     "AfterDoctypeSystemIdentifier"}

\* this step emits a Doctype token
EmitsDoctype ==
    ~t.isEmitPending /\ t'.isEmitPending /\ t'.emitPending.kind = "doctype"

\* C31: when a step of one of the doctype states finds the end of the input and
\* emits the Doctype token, the token has forceQuirks set, an EOF parse error of
\* that state is recorded (unless the error list is full) and the state is Data
C31_DoctypeAtEof ==
    [][(EmitsDoctype /\ isEmpty(r) /\ t.state \in DoctypeEofStates) =>
         /\ emitSnap'.type = "Doctype"
         /\ emitSnap'.flag
         /\ t'.doctypePending.forceQuirks
         /\ Len(errors.list) < errors.maxSize =>
               /\ Len(errors'.list) > Len(errors.list)
               /\ errors'.list[Len(errors.list) + 1].kind = "eof"
               /\ errors'.list[Len(errors.list) + 1].state = t.state
         /\ t'.state = "Data"
         /\ pc' = "reading"]_vars

\* the input ended after the closing quote of the system identifier: the Doctype
\* token waits to be returned with forceQuirks set, and the EOF error is recorded
C31_Witness ==
    /\ t.isEmitPending
    /\ t.emitPending.kind = "doctype"
    /\ returned = << >>
    /\ emitSnap.flag
    /\ emitSnap.systemIdentifier = <<"c">>
    /\ isEmpty(r)
    /\ t.state = "Data"
    /\ Len(errors.list) > 0
    /\ errors.list[Len(errors.list)].kind = "eof"
    /\ errors.list[Len(errors.list)].state = "AfterDoctypeSystemIdentifier"

\* C32: put(name, value) with a string value does not fail; when an attribute has
\* the key, the first such attribute gets the value and nothing else changes; when
\* none has it, the attribute (name, value) is appended at the end
C32_AttributesPut ==
    [][call'.op = "put" =>
         LET list == t.startPending.attributes.v
             name == call'.arg[1]
             value == call'.arg[2]
             index == Attributes_indexOfKey(list, name)
         IN  /\ exception' = "none"
             /\ t'.startPending.attributes.v =
                   IF index = -1
                   THEN Append(list, [key |-> name, val |-> Some(value)])
                   ELSE [list EXCEPT ![index + 1].val = Some(value)]]_vars

\* the end tag of the last start tag follows somewhere in the rest of the input,
\* written all in lower case or all in upper case
EndTagFollows ==
    LET seq == <<"<", "/">> \o t.lastStartTag.v
    IN  \/ Occurrences(r.bufPos, toLowerCase(seq)) # {}
        \/ Occurrences(r.bufPos, toUpperCase(seq)) # {}

\* the case of RcdataLessthanSign in which the tokenizer breaks out of Rcdata
BreaksOut ==
    /\ ~isEmpty(r)
    /\ isLetter(current(r))
    /\ ~t.lastStartTag.null
    /\ ~EndTagFollows

\* C33: a step of RcdataLessthanSign whose next character is not "/" either
\* breaks out (a letter follows, lastStartTag is set and its end tag occurs nowhere
\* in the rest of the input): it emits an EndTag named lastStartTag and goes to
\* TagOpen without consuming; or it emits the text "<" and goes back to Rcdata
C33_RcdataBreakOut ==
    [][(Step("RcdataLessthanSign") /\ ~matches(r, <<"/">>)) =>
         /\ pc' = "reading"
         /\ r'.bufPos = r.bufPos
         /\ IF BreaksOut
            THEN /\ t'.isEmitPending
                 /\ emitSnap'.type = "EndTag"
                 /\ emitSnap'.tagName = t.lastStartTag
                 /\ emitLog' = emitLog
                 /\ t'.state = "TagOpen"
            ELSE /\ ~t'.isEmitPending
                 /\ emitLog' = emitLog \o <<"<">>
                 /\ t'.state = "Rcdata"]_vars

\* the tokenizer broke out of Rcdata before a letter: the synthetic EndTag of the
\* last start tag waits to be returned and the tag that follows is read in TagOpen
C33_Witness ==
    /\ t.state = "TagOpen"
    /\ t.isEmitPending
    /\ emitSnap.type = "EndTag"
    /\ ~t.lastStartTag.null
    /\ emitSnap.tagName = t.lastStartTag
    /\ matchesLetter(r)
    /\ r.bufPos > 0
    /\ charAt(r, r.bufPos - 1) = "<"

\* the position of the "</" that opened the end tag whose name ends at the cursor
EndTagStart ==
    LET opens == { p \in 0 .. (r.bufPos - 2) :
                     charAt(r, p) = "<" /\ charAt(r, p + 1) = "/" }
    IN  CHOOSE p \in opens : \A q \in opens : q <= p

\* the step of RCDATAEndTagName that ends a name which is not an end tag of Rcdata
NotAnEndTag ==
    /\ Step("RCDATAEndTagName")
    /\ ~matchesLetter(r)
    /\ \/ current(r) \notin Whitespace \cup {"/", ">"}
       \/ t.lastStartTag.null
       \/ ~equalsIgnoreCase(Some(t.dataBuffer), t.lastStartTag)

\* C34: when the name read after "</" in Rcdata is not the appropriate end tag, or
\* is followed by a character other than whitespace, "/" or ">", the step emits no
\* EndTag, emits "</" and the buffered name as text, leaves the cursor on the
\* terminating character and goes to Rcdata, and the emitted text is the input
\* from the "</" up to the cursor
C34_NonMatchingEndTag ==
    [][NotAnEndTag =>
         /\ pc' = "reading"
         /\ ~t'.isEmitPending
         /\ emitLog' = emitLog \o <<"<", "/">> \o t.dataBuffer
         /\ r'.bufPos = r.bufPos
         /\ t'.state = "Rcdata"
         /\ <<"<", "/">> \o t.dataBuffer = SubSeq(r.charBuf, EndTagStart + 1, r.bufPos)]_vars

\* the assertion of emitToken fails in this step: emitToken is called while a token
\* is pending (the same message is thrown when the name of an emitted StartTag is
\* empty, in which case the pending token is that StartTag)
EmitsWhilePending ==
    /\ pc' = "thrown"
    /\ exception' = "must be false"
    /\ t'.isEmitPending
    /\ ~(/\ t'.emitPending.kind = "start"
         /\ \/ t'.startPending.tagName.null
            \/ Len(t'.startPending.tagName.v) = 0)

\* C35: a state's read (a step of read() that moves the cursor or changes the
\* state) runs only while no token is pending, and no step calls emitToken while
\* a token is pending: the assertion of emitToken never fails
C35_OnePendingToken ==
    [][/\ (pc = "reading" /\ (r' # r \/ t'.state # t.state)) => ~t.isEmitPending
       /\ ~EmitsWhilePending]_vars

\* the end of the input in Doctype: the step records two errors and emits the one
\* Doctype token, which waits to be returned
C35_Witness ==
    /\ pc = "reading"
    /\ exception = "none"
    /\ t.isEmitPending
    /\ t.emitPending.kind = "doctype"
    /\ Len(errors.list) = 2
    /\ errors.list[1].kind = "eof"
    /\ errors.list[1].state = "Doctype"
    /\ errors.list[2].kind = "char"
    /\ errors.list[2].state = "Doctype"

DoctypeTokens(tokens) == { i \in DOMAIN tokens : tokens[i].type = "Doctype" }

\* C37: every step that emits a Doctype token leaves the tokenizer in Data, and
\* one declaration gives no more than one Doctype token
C37_OneDoctypeToken ==
    [][/\ EmitsDoctype => t'.state = "Data"
       /\ Cardinality(DoctypeTokens(returned')) <= 1]_vars

\* the states that read the name of a tag, and the states of a comment
TagNameStates == {"TagName", "RCDATAEndTagName", "RawtextEndTagName", "ScriptDataEndTagName"}

CommentStates ==
    {"CommentStart", "CommentStartDash", "Comment", "CommentEndDash", "CommentEnd",
     "CommentEndBang", "BogusComment"}

PendingTagOf(tk) == IF tk.tagPending = "end" THEN tk.endPending ELSE tk.startPending

\* a pending tag that holds nothing but the first character of its name
FreshTag(tag) ==
    /\ [tag EXCEPT !.tagName = Null] = Tag_reset
    /\ tag.tagName.null \/ Len(tag.tagName.v) <= 1

\* a pending doctype that holds nothing but the first character of its name
FreshDoctype(d) ==
    /\ [d EXCEPT !.name = << >>] = Doctype_reset
    /\ Len(d.name) <= 1

StartsAttributeName ==
    /\ Step("BeforeAttributeName") \/ Step("AfterAttributeName")
    /\ t'.state = "AttributeName"

\* C39: a step of BeforeAttributeName or AfterAttributeName that starts an attribute
\* name first commits the pending attribute with newAttribute(), so that the new
\* name holds at most the character that started it; and an emitted tag has no
\* pending attribute left
C39_AttributeBoundaries ==
    [][/\ StartsAttributeName =>
            LET committed == Tag_newAttribute(PendingTagOf(t))
            IN  \/ PendingTagOf(t') = committed
                \/ PendingTagOf(t') = Tag_appendAttributeName(committed, <<current(r)>>)
       /\ (t'.isEmitPending /\ ~t.isEmitPending /\ t'.emitPending.kind \in {"start", "end"}) =>
            PendingTagOf(t').pendingAttributeName.null]_vars

\* the text with each NUL replaced by U+FFFD
NulReplaced(text) == [i \in DOMAIN text |-> IF text[i] = NUL THEN FFFD ELSE text[i]]

\* C40: a step of Rawtext or ScriptData on a character other than "<" emits the
\* characters it consumes, each NUL replaced by U+FFFD, in their order and once,
\* and emits no token
C40_RawTextLossless ==
    [][(Step("Rawtext") \/ Step("ScriptData")) /\ current(r) \notin {"<", EOFChar} =>
         /\ pc' = "reading"
         /\ ~t'.isEmitPending
         /\ r'.bufPos >= r.bufPos
         /\ Emitted = NulReplaced(SubSeq(r.charBuf, r.bufPos + 1, r'.bufPos))]_vars

============================================================================
